---- MODULE Spec2Model ----
(***************************************************************************)
(* Webhook-driven document lifecycle of mekari-esign-go.                   *)
(*                                                                         *)
(* Modelled: the key-value cache (DocumentMapping by document ID and by    *)
(* entry number, DocumentInfo, NAVSetup), the document folders, the sign   *)
(* request initiator, the webhook receiver and the stamp request.          *)
(*                                                                         *)
(* Strings whose content the code inspects (file names, invoice numbers,   *)
(* the extension) are sequences of one-character strings, so that          *)
(* strings.Contains, strings.HasSuffix, strings.ToLower and the directory  *)
(* listing order are computed, not assumed.                                *)
(*                                                                         *)
(* Environment: every modelled directory exists and is writable; a file    *)
(* operation fails only for the reason the folder state gives (a missing   *)
(* source file).  The cache answers every Get; a Set fails only where the  *)
(* model says so.  Provider document IDs are fresh.  The ERP is either     *)
(* reachable or unreachable for the whole of one webhook delivery.         *)
(*                                                                         *)
(* Specifications: Spec is the document lifecycle (sign requests,          *)
(* deliveries, OAuth callbacks) with a cache that takes every mapping      *)
(* write; RequestSpec is the request-sign endpoint alone, with every       *)
(* shape of request, an ERP setup with or without a process folder, and    *)
(* mapping writes that succeed or fail; LifecycleSpec is the runs of Spec  *)
(* in which no call fails.  In these each handler runs as one step.        *)
(* RaceSpec runs two webhook deliveries for one invoice step by step.      *)
(* LookupSpec applies the folder lookup to every small directory listing   *)
(* and TokenSpec the token store to every small expires_in.                *)
(***************************************************************************)
EXTENDS Integers, Sequences, FiniteSets, TLC

\* ------------------------------------------------------------------------
\* Bounds
\* ------------------------------------------------------------------------
MaxOps == 3          \* operations received: sign requests, deliveries, OAuth callbacks
MaxSigners == 5      \* signers of one sign request

\* an operation obtains at most one new document ID
MaxDocs == MaxOps

\* ------------------------------------------------------------------------
\* Strings
\* ------------------------------------------------------------------------
Chars == {".", "1", "2", "9", "A", "B", "D", "F", "P", "d", "f", "p"}

\* byte order of the characters in use (ASCII)
CharCode(c) ==
    CASE c = "." -> 46
      [] c = "1" -> 49
      [] c = "2" -> 50
      [] c = "9" -> 57
      [] c = "A" -> 65
      [] c = "B" -> 66
      [] c = "D" -> 68
      [] c = "F" -> 70
      [] c = "P" -> 80
      [] c = "d" -> 100
      [] c = "f" -> 102
      [] c = "p" -> 112

LowerChar(c) ==
    CASE c = "D" -> "d"
      [] c = "F" -> "f"
      [] c = "P" -> "p"
      [] c = "A" -> "a"
      [] c = "B" -> "b"
      [] OTHER -> c

ToLower(s) == [i \in 1..Len(s) |-> LowerChar(s[i])]

HasSuffix(s, suffix) ==
    /\ Len(s) >= Len(suffix)
    /\ SubSeq(s, Len(s) - Len(suffix) + 1, Len(s)) = suffix

Contains(s, substr) ==
    \E i \in 0..(Len(s) - Len(substr)) : SubSeq(s, i + 1, i + Len(substr)) = substr

\* string comparison s < t, byte by byte
RECURSIVE StrLess(_, _)
StrLess(s, t) ==
    IF t = <<>> THEN FALSE
    ELSE IF s = <<>> THEN TRUE
    ELSE IF CharCode(Head(s)) # CharCode(Head(t))
         THEN CharCode(Head(s)) < CharCode(Head(t))
         ELSE StrLess(Tail(s), Tail(t))

\* lastIndex(s, "."): index (1-based) of the last occurrence, 0 when none
lastIndex(s, c) ==
    IF \E i \in 1..Len(s) : s[i] = c
    THEN CHOOSE i \in 1..Len(s) : s[i] = c /\ \A j \in (i + 1)..Len(s) : s[j] # c
    ELSE 0

extractInvoiceNumber(filename) ==
    LET idx == lastIndex(filename, ".")
    IN  IF idx # 0 THEN SubSeq(filename, 1, idx - 1) ELSE filename

FileExtension == <<".", "p", "d", "f">>

FileA1 == <<"A", "1", ".", "p", "d", "f">>
FileA12 == <<"A", "1", "2", ".", "P", "D", "F">>
Filenames == {FileA1, FileA12}

InvA1 == <<"A", "1">>
InvA12 == <<"A", "1", "2">>
InvB9 == <<"B", "9">>
InvoiceNumbers == {InvA1, InvA12, InvB9, <<>>}

\* ------------------------------------------------------------------------
\* Values
\* ------------------------------------------------------------------------
\* a Go pointer or a cache slot is a sequence: empty when nil / missing, else one element
Nil == <<>>
NoEntry == <<>>
Some(x) == <<x>>
Absent == "absent"

\* document IDs: "" is EmptyId, the provider issues 1, 2, ...; LegacyId has an
\* old-format cache entry, UnknownId has none
EmptyId == 0
ProviderIds == 1..MaxDocs
LegacyId == MaxDocs + 1
UnknownId == MaxDocs + 2

Emails == {"", "u"}
\* file contents: the queued original, and what the provider serves for a signed and
\* for a stamped document
InitialBytes == "original"
SignedBytes == "signed"
StampedBytes == "stamped"
DocURLs == {"/doc"}
MaxEntryNo == 1
EntryNos == 0..MaxEntryNo

\* folder paths: the three configured ones and the three an ERP setup names
GetReadyPath == "cfg/ready"
GetProgressPath == "cfg/progress"
GetFinishPath == "cfg/finish"
Paths == {GetReadyPath, GetProgressPath, GetFinishPath, "nav/out", "nav/process", "nav/in"}

NAVSetup(in, process, out) ==
    [FileLocationIn |-> in, FileLocationProcess |-> process, FileLocationOut |-> out]

\* the setup the ERP serves names all three folders
NavSetups ==
    { NAVSetup("nav/in", "nav/process", "nav/out") }

StampPos == Some([Page |-> 1, X |-> 10, Y |-> 20])

DocumentMapping(id, email, inv, filename, pos, deadline, entryNo, signing, stamping) ==
    [DocumentID |-> id, Email |-> email, InvoiceNumber |-> inv, Filename |-> filename,
     StampPositions |-> pos, DocumentDeadline |-> deadline, EntryNo |-> entryNo,
     Signing |-> signing, Stamping |-> stamping]

\* a cache value is the JSON of a DocumentMapping or, in the old format, a bare email
JsonMapping(m) == [format |-> "json", value |-> m]
RawEmail(e) == [format |-> "raw", email |-> e]

\* RedisClient.Get: the value of a key, or an error when the key is missing
GetProceedsOnMiss(cache, key) ==
    [err |-> FALSE, data |-> IF cache[key] = NoEntry THEN RawEmail("") ELSE cache[key][1]]

Get(cache, key) ==
    IF cache[key] = NoEntry
    THEN [err |-> TRUE, data |-> RawEmail("")]
    ELSE [err |-> FALSE, data |-> cache[key][1]]

\* json.Unmarshal of the cached value, with the fallback for the old format
ParseMapping(data) ==
    IF data.format = "json"
    THEN data.value
    ELSE DocumentMapping(EmptyId, data.email, <<>>, <<>>, Nil, Nil, 0, FALSE, FALSE)

\* ------------------------------------------------------------------------
\* Document folder manager
\* ------------------------------------------------------------------------
\* a directory entry that is itself a directory (file.IsDir())
Directory == "directory"

\* the extension the lookup compares with: the configured one, ".pdf" when none is
DefaultExtension == <<".", "p", "d", "f">>

ExtensionOf(configured) == IF configured = <<>> THEN DefaultExtension ELSE configured

\* os.ReadDir lists a directory sorted by file name; the lookup takes the first
\* entry that is no directory, has the extension (compared in lower case) and contains
\* the invoice number
MatchesInExtCaseSensitive(dir, invoiceNumber, configured) ==
    { n \in DOMAIN dir :
        /\ dir[n] # Absent
        /\ dir[n] # Directory
        /\ HasSuffix(n, ExtensionOf(configured))
        /\ Contains(n, invoiceNumber) }

MatchesInExt(dir, invoiceNumber, configured) ==
    { n \in DOMAIN dir :
        /\ dir[n] # Absent
        /\ dir[n] # Directory
        /\ HasSuffix(ToLower(n), ToLower(ExtensionOf(configured)))
        /\ Contains(n, invoiceNumber) }

MatchesIn(dir, invoiceNumber) == MatchesInExt(dir, invoiceNumber, FileExtension)

FirstInListing(names) ==
    CHOOSE n \in names : \A o \in names : o = n \/ StrLess(n, o)

\* the empty name stands for the not-found error
FindFilenameInExt(fs, path, invoiceNumber, configured) ==
    LET m == MatchesInExt(fs[path], invoiceNumber, configured)
    IN  IF m = {} THEN <<>> ELSE FirstInListing(m)

FindFilenameIn(fs, path, invoiceNumber) ==
    FindFilenameInExt(fs, path, invoiceNumber, FileExtension)

FindDocumentByInvoiceNumber(fs, invoiceNumber) ==
    FindFilenameIn(fs, GetReadyPath, invoiceNumber)

FindDocumentByInvoiceNumberWithPath(fs, invoiceNumber, readyPath) ==
    FindFilenameIn(fs, readyPath, invoiceNumber)

FindFilenameInProgress(fs, invoiceNumber) ==
    FindFilenameIn(fs, GetProgressPath, invoiceNumber)

FindFilenameInProgressWithPath(fs, invoiceNumber, progressPath) ==
    FindFilenameIn(fs, progressPath, invoiceNumber)

\* os.WriteFile: creates or overwrites
WriteFile(fs, path, filename, content) ==
    [fs EXCEPT ![path][filename] = content]

\* os.Remove: fails when the file is missing
RemoveFails(fs, path, filename) == fs[path][filename] = Absent

RemoveFile(fs, path, filename) ==
    [fs EXCEPT ![path][filename] = Absent]

\* os.Rename: fails when the source is missing, replaces the destination
RenameFails(fs, src, dst, filename) == fs[src][filename] = Absent

RenameFile(fs, src, dst, filename) ==
    IF RenameFails(fs, src, dst, filename) THEN fs
    ELSE [fs EXCEPT ![dst][filename] = fs[src][filename], ![src][filename] = Absent]

MoveToProgress(fs, filename) ==
    RenameFile(fs, GetReadyPath, GetProgressPath, filename)

MoveToProgressWithPath(fs, filename, readyPath, progressPath) ==
    RenameFile(fs, readyPath, progressPath, filename)

ReplaceFileInProgress(fs, filename, content) ==
    WriteFile(fs, GetProgressPath, filename, content)

ReplaceFileInProgressWithPath(fs, filename, content, progressPath) ==
    WriteFile(fs, progressPath, filename, content)

SaveToFinishAndDeleteProgressKeepsProgress(fs, filename, content) ==
    WriteFile(fs, GetFinishPath, filename, content)

SaveToFinishAndDeleteProgress(fs, filename, content) ==
    RemoveFile(WriteFile(fs, GetFinishPath, filename, content), GetProgressPath, filename)

SaveToFinishAndDeleteProgressWithPath(fs, filename, content, finishPath, progressPath) ==
    RemoveFile(WriteFile(fs, finishPath, filename, content), progressPath, filename)

\* ------------------------------------------------------------------------
\* State
\* ------------------------------------------------------------------------
VARIABLES
    cfg,         \* configuration: NAV integration enabled, provider auth type
    folders,     \* path -> file name -> content
    docMap,      \* cache "mekari:document:{id}"
    entryMap,    \* cache "mekari:entry_no:{n}"
    docInfo,     \* cache "mekari:document:info:{id}"
    navCache,    \* cache "mekari:nav_setup:{n}"
    erpSetup,    \* the folder setup the ERP serves
    authCodes,   \* emails with a stored OAuth authorization code
    issued,      \* number of document IDs the provider has issued
    nOps,        \* operations received so far
    stampCount,  \* DocumentID of a mapping -> stamp requests ProcessWebhook sent for it
    lastOp       \* what the last operation received, did and answered

vars == <<cfg, folders, docMap, entryMap, docInfo, navCache, erpSetup, authCodes,
          issued, nOps, stampCount, lastOp>>

CacheIds == ProviderIds \cup {LegacyId, UnknownId}

IsHMAC == cfg.authType = "hmac"
IsOAuth2 == cfg.authType = "oauth2" \/ cfg.authType = ""

WebhookPayload(id, filename, signing, stamping, docURL) ==
    [ID |-> id, Filename |-> filename, SigningStatus |-> signing,
     StampingStatus |-> stamping, DocURL |-> docURL]

\* the status pairs of a delivery: one for each way the two branch conditions and the
\* stamping condition can come out; the code compares signing_status with "completed"
\* only, "in_progress" stands for every other value
StatusPairs ==
    { <<"in_progress", "none">>, <<"completed", "none">>, <<"completed", "pending">>,
      <<"in_progress", "success">>, <<"completed", "success">> }

PayloadFilenames == {FileA12}

\* the deliveries: every status pair for the issued IDs; for the old-format entry, an
\* unknown ID and a missing ID the pairs that would reach a branch
Payloads ==
    { WebhookPayload(id, fn, sp[1], sp[2], u) :
        id \in 1..issued, fn \in PayloadFilenames, sp \in StatusPairs, u \in DocURLs }
    \cup { WebhookPayload(LegacyId, fn, "completed", st, u) :
             fn \in PayloadFilenames, st \in {"none", "success"}, u \in DocURLs }
    \cup { WebhookPayload(id, fn, "completed", "success", u) :
             id \in {UnknownId, EmptyId}, fn \in PayloadFilenames, u \in DocURLs }

NoPayload == WebhookPayload(EmptyId, <<>>, "", "", "")

DocumentInfoWithoutStatus(id, email, inv, filename, signing, stamping, docURL) ==
    [DocumentID |-> id, Email |-> email, InvoiceNumber |-> inv, Filename |-> filename,
     SigningStatus |-> "", StampingStatus |-> "", DocURL |-> docURL]

DocumentInfo(id, email, inv, filename, signing, stamping, docURL) ==
    [DocumentID |-> id, Email |-> email, InvoiceNumber |-> inv, Filename |-> filename,
     SigningStatus |-> signing, StampingStatus |-> stamping, DocURL |-> docURL]

SignerRequest(name, email, page, pos) ==
    [Name |-> name, Email |-> email, SignPage |-> page, SignaturePositions |-> pos]

DocumentDeadline(signing, recurring, days) ==
    [SigningDeadline |-> signing, RecurringReminder |-> recurring,
     DaysReminderAfterReceive |-> days]

SignaturePosition(x, y, page) == [X |-> x, Y |-> y, Page |-> page]

GoodSigner == SignerRequest("s", "s@x", 1, Some(SignaturePosition(1, 1, 1)))

GlobalSignRequest(entryNo, email, inv, signing, stamping, signers, pos, deadline) ==
    [EntryNo |-> entryNo, Email |-> email, InvoiceNumber |-> inv, Signing |-> signing,
     Stamping |-> stamping, Signers |-> signers, StampPositions |-> pos,
     DocumentDeadline |-> deadline]

\* the requests: well-formed ones for each entry number, invoice and phase selection,
\* a stamping-only one (without signers and with a signing deadline below the limit),
\* and one for each way a request is turned down
Requests ==
    { GlobalSignRequest(0, "u", InvA1, TRUE, TRUE, <<GoodSigner>>, StampPos, Nil),
      GlobalSignRequest(1, "u", InvA1, TRUE, FALSE, <<GoodSigner>>, StampPos, Nil),
      GlobalSignRequest(1, "u", InvA12, TRUE, TRUE, <<GoodSigner>>, Nil, Nil),
      GlobalSignRequest(0, "u", InvA1, FALSE, TRUE, <<>>, StampPos,
                        Some(DocumentDeadline(2, "weekly", 1))) }
    \cup { GlobalSignRequest(0, "u", InvA1, TRUE, TRUE, <<>>, StampPos, Nil),
             GlobalSignRequest(0, "u", InvA1, TRUE, TRUE, <<GoodSigner>>, StampPos,
                               Some(DocumentDeadline(2, "weekly", 1))),
             GlobalSignRequest(0, "u", InvB9, TRUE, TRUE, <<GoodSigner>>, StampPos, Nil),
             GlobalSignRequest(0, "u", <<>>, TRUE, FALSE, <<GoodSigner>>, Nil, Nil),
             GlobalSignRequest(0, "", InvA1, TRUE, FALSE, <<GoodSigner>>, Nil, Nil) }

NoRequest == GlobalSignRequest(0, "", <<>>, FALSE, FALSE, <<>>, Nil, Nil)

\* the range of signer lists: 0 to MaxSigners well-formed signers (the second one with
\* its page in sign_page), and lists whose first or second signer lacks one field
PageInSignPage == SignerRequest("t", "t@x", 2, Some(SignaturePosition(3, 4, 0)))

MalformedSigners ==
    { SignerRequest("", "s@x", 1, Some(SignaturePosition(1, 1, 1))),
      SignerRequest("s", "", 1, Some(SignaturePosition(1, 1, 1))),
      SignerRequest("s", "s@x", 0, Some(SignaturePosition(1, 1, 1))),
      SignerRequest("s", "s@x", -1, Some(SignaturePosition(1, 1, 1))),
      SignerRequest("s", "s@x", 1, Nil) }

WellFormedSigners(n) == [i \in 1..n |-> IF i = 2 THEN PageInSignPage ELSE GoodSigner]

SignerLists ==
    { WellFormedSigners(n) : n \in 0..MaxSigners }
    \cup { <<m>> : m \in MalformedSigners }
    \cup { <<GoodSigner, m>> : m \in MalformedSigners }

\* the range of deadlines: each field in turn at, inside and outside its limits
Reminders == {"", "none", "daily", "three_days", "weekly", "monthly", "biweekly"}

Deadlines ==
    { DocumentDeadline(sd, "weekly", 1) : sd \in {0, 2, 3, 31, 32} }
    \cup { DocumentDeadline(3, "weekly", d) : d \in {-1, 0, 1, 31, 32} }
    \cup { DocumentDeadline(3, r, 1) : r \in Reminders }

\* the requests of the request-sign endpoint: those above and, for the second file, every
\* signer list and every deadline
AllRequests ==
    Requests
    \cup { GlobalSignRequest(0, "u", InvA12, TRUE, FALSE, l, Nil, Nil) : l \in SignerLists }
    \cup { GlobalSignRequest(0, "u", InvA12, TRUE, FALSE, <<GoodSigner>>, Nil, Some(d)) :
             d \in Deadlines }
    \cup { GlobalSignRequest(0, "u", InvA12, FALSE, FALSE, <<>>, Nil, Nil) }

\* ------------------------------------------------------------------------
\* Outbound calls: the outcomes the environment can produce
\* ------------------------------------------------------------------------
\* DownloadDocument: token error (OAuth2 only), status # 200 (a transport error is
\* returned the same way), or the bytes; the provider serves the stamped document once
\* stamping has succeeded
ProviderContent(stampingStatus) ==
    IF stampingStatus = "success" THEN StampedBytes ELSE SignedBytes

DownloadOutcomes(stampingStatus) ==
    { [err |-> "", content |-> ProviderContent(stampingStatus)] }
    \cup { [err |-> e, content |-> ""] :
             e \in (IF IsOAuth2 THEN {"token"} ELSE {}) \cup {"status"} }

\* the stamp call: token error (OAuth2 only), transport error, non-2xx, or 2xx with a
\* new document ID followed by a cache write that succeeds or not
StampOutcomes ==
    { [err |-> e, set |-> TRUE] :
        e \in (IF IsOAuth2 THEN {"token"} ELSE {}) \cup {"transport", "status"} }
    \cup (IF issued < MaxDocs THEN { [err |-> "", set |-> ok] : ok \in BOOLEAN } ELSE {})

\* navClient.GetSetup: nil when the integration is disabled, else an error or the setup
GetSetupOutcomes ==
    IF cfg.navEnabled THEN {"error", "ok"} ELSE {"disabled"}

\* navClient.UpdateLogEntry: no call when the integration is disabled; it fails when
\* the ERP is unreachable
UpdateLogEntryOutcomes(setupOutcome) ==
    IF ~cfg.navEnabled THEN {"disabled"}
    ELSE IF setupOutcome = "error" THEN {"fail"}
    ELSE IF setupOutcome = "ok" THEN {"ok"}
    ELSE {"ok", "fail"}

\* ------------------------------------------------------------------------
\* Webhook processor
\* ------------------------------------------------------------------------
\* getNAVSetupCached: the cached setup, else fetch and cache; outcome is used on a miss
NeedsSetupFetchAlways(cache, entryNo) == TRUE

NeedsSetupFetch(cache, entryNo) == cache[entryNo] = NoEntry

getNAVSetupCached(cache, entryNo, outcome) ==
    IF ~NeedsSetupFetch(cache, entryNo)
    THEN [setup |-> cache[entryNo], cache |-> cache, events |-> <<>>]
    ELSE IF outcome = "disabled"
    THEN [setup |-> Nil, cache |-> cache, events |-> <<>>]
    ELSE IF outcome = "error"
    THEN [setup |-> Nil, cache |-> cache, events |-> <<"nav_fetch">>]
    ELSE [setup |-> Some(erpSetup),
          cache |-> [cache EXCEPT ![entryNo] = Some(erpSetup)],
          events |-> <<"nav_fetch">>]

SetupChoices(cache, entryNo) ==
    IF NeedsSetupFetch(cache, entryNo) THEN GetSetupOutcomes ELSE {"cached"}

\* sendNAVLogEntry: resolve the setup, then PATCH the log entry
sendNAVLogEntryDetached(cache, mapping, setupOutcome, updateOutcome) ==
    LET r == getNAVSetupCached(cache, mapping.EntryNo, setupOutcome)
    IN  [cache |-> r.cache, failed |-> FALSE, events |-> r.events]

sendNAVLogEntry(cache, mapping, setupOutcome, updateOutcome) ==
    LET r == getNAVSetupCached(cache, mapping.EntryNo, setupOutcome)
    IN  [cache |-> r.cache,
         failed |-> updateOutcome = "fail",
         events |-> r.events \o (IF updateOutcome = "disabled" THEN <<>>
                                  ELSE IF updateOutcome = "fail" THEN <<"erp_update_failed">>
                                  ELSE <<"erp_update">>)]

\* the two branch conditions and the stamping condition of ProcessWebhook
SigningCompletedAnyStamping(payload) ==
    payload.SigningStatus = "completed"

SigningCompleted(payload) ==
    payload.SigningStatus = "completed" /\ payload.StampingStatus # "success"

StampingRequiredIgnoresFlag(payload, mapping) ==
    /\ payload.StampingStatus = "none"
    /\ mapping.StampPositions # Nil

StampingRequired(payload, mapping) ==
    /\ payload.StampingStatus = "none"
    /\ mapping.StampPositions # Nil
    /\ mapping.Stamping

StampingCompleted(payload) == payload.StampingStatus = "success"

invoiceNumberOf(mapping, payload) ==
    IF mapping.InvoiceNumber = <<>>
    THEN extractInvoiceNumber(payload.Filename)
    ELSE mapping.InvoiceNumber

originalFilenameOfPayload(mapping, payload) == payload.Filename

originalFilenameOf(mapping, payload) ==
    IF mapping.Filename = <<>> THEN payload.Filename ELSE mapping.Filename

\* replaceDocumentInProgress: find by invoice number, then overwrite
replaceDocumentInProgressNoWrite(fs, invoiceNumber, content, progressPath) ==
    LET filename == IF progressPath # ""
                    THEN FindFilenameInProgressWithPath(fs, invoiceNumber, progressPath)
                    ELSE FindFilenameInProgress(fs, invoiceNumber)
    IN  IF filename = <<>>
        THEN [fs |-> fs, events |-> <<"replace_failed">>]
        ELSE [fs |-> fs, events |-> <<"replace">>]

replaceDocumentInProgress(fs, invoiceNumber, content, progressPath) ==
    LET filename == IF progressPath # ""
                    THEN FindFilenameInProgressWithPath(fs, invoiceNumber, progressPath)
                    ELSE FindFilenameInProgress(fs, invoiceNumber)
    IN  IF filename = <<>>
        THEN [fs |-> fs, events |-> <<"replace_failed">>]
        ELSE [fs |-> IF progressPath # ""
                     THEN ReplaceFileInProgressWithPath(fs, filename, content, progressPath)
                     ELSE ReplaceFileInProgress(fs, filename, content),
              events |-> <<"replace">>]

\* RequestStamping: one POST to the provider; on 2xx the mapping is cached under the new ID
RequestStampingEmailOnly(dm, iss, sc, mapping, outcome) ==
    LET sent == outcome.err # "token"
        sc2 == IF sent THEN [sc EXCEPT ![mapping.DocumentID] = @ + 1] ELSE sc
        ev == IF sent THEN <<"stamp_request">> ELSE <<>>
    IN  IF outcome.err # ""
        THEN [docMap |-> dm, issued |-> iss, stampCount |-> sc2, err |-> outcome.err,
              stampId |-> EmptyId, events |-> ev \o <<"stamp_failed">>]
        ELSE [docMap |-> IF outcome.set
                         THEN [dm EXCEPT ![iss + 1] = Some(RawEmail(mapping.Email))]
                         ELSE dm,
              issued |-> iss + 1, stampCount |-> sc2, err |-> "",
              stampId |-> iss + 1,
              events |-> ev \o (IF outcome.set THEN <<"mapping_set">> ELSE <<>>)]

RequestStamping(dm, iss, sc, mapping, outcome) ==
    LET sent == outcome.err # "token"
        sc2 == IF sent THEN [sc EXCEPT ![mapping.DocumentID] = @ + 1] ELSE sc
        ev == IF sent THEN <<"stamp_request">> ELSE <<>>
    IN  IF outcome.err # ""
        THEN [docMap |-> dm, issued |-> iss, stampCount |-> sc2, err |-> outcome.err,
              stampId |-> EmptyId, events |-> ev \o <<"stamp_failed">>]
        ELSE [docMap |-> IF outcome.set
                         THEN [dm EXCEPT ![iss + 1] = Some(JsonMapping(mapping))]
                         ELSE dm,
              issued |-> iss + 1, stampCount |-> sc2, err |-> "",
              stampId |-> iss + 1,
              events |-> ev \o (IF outcome.set THEN <<"mapping_set">> ELSE <<>>)]

NoDownload == [err |-> "none", content |-> ""]
NoStamp == [err |-> "none", set |-> FALSE]

\* ProcessWebhook, "Handle signing completed": download, then replace the progress
\* file and, when stamping is required, request the stamp
HandleSigningCompletedStampFirst(fs, dm, iss, sc, payload, mapping, progressPath, dl, st) ==
    LET none == [fs |-> fs, docMap |-> dm, issued |-> iss, stampCount |-> sc, err |-> "",
                 events |-> <<>>, content |-> "", stampId |-> EmptyId]
    IN  IF ~SigningCompleted(payload) THEN none
        ELSE IF dl.err # ""
        THEN [none EXCEPT !.err = "download_signed", !.events = <<"download_failed">>]
        ELSE LET rep == replaceDocumentInProgress(fs, invoiceNumberOf(mapping, payload),
                                                  dl.content, progressPath)
             IN  IF StampingRequired(payload, mapping)
                 THEN LET rs == RequestStamping(dm, iss, sc, mapping, st)
                      IN  IF rs.err # ""
                          THEN [none EXCEPT !.stampCount = rs.stampCount,
                                            !.err = "stamping",
                                            !.events = <<"download">> \o rs.events]
                          ELSE [fs |-> rep.fs, docMap |-> rs.docMap, issued |-> rs.issued,
                                stampCount |-> rs.stampCount, err |-> "",
                                events |-> <<"download">> \o rs.events \o rep.events,
                                content |-> dl.content, stampId |-> rs.stampId]
                 ELSE [none EXCEPT !.fs = rep.fs, !.events = <<"download">> \o rep.events,
                                   !.content = dl.content]

HandleSigningCompleted(fs, dm, iss, sc, payload, mapping, progressPath, dl, st) ==
    LET none == [fs |-> fs, docMap |-> dm, issued |-> iss, stampCount |-> sc, err |-> "",
                 events |-> <<>>, content |-> "", stampId |-> EmptyId]
    IN  IF ~SigningCompleted(payload) THEN none
        ELSE IF dl.err # ""
        THEN [none EXCEPT !.err = "download_signed", !.events = <<"download_failed">>]
        ELSE LET rep == replaceDocumentInProgress(fs, invoiceNumberOf(mapping, payload),
                                                  dl.content, progressPath)
             IN  IF StampingRequired(payload, mapping)
                 THEN LET rs == RequestStamping(dm, iss, sc, mapping, st)
                      IN  [fs |-> rep.fs, docMap |-> rs.docMap, issued |-> rs.issued,
                           stampCount |-> rs.stampCount, err |-> "",
                           events |-> <<"download">> \o rep.events \o rs.events,
                           content |-> dl.content, stampId |-> rs.stampId]
                 ELSE [none EXCEPT !.fs = rep.fs, !.events = <<"download">> \o rep.events,
                                   !.content = dl.content]

\* ProcessWebhook, "Handle stamping completed": download, save to finish, delete from
\* progress; a failed delete is only logged
HandleStampingCompletedFailsOnDelete(fs, payload, mapping, finishPath, progressPath, dl) ==
    LET none == [fs |-> fs, err |-> "", events |-> <<>>, content |-> ""]
        originalFilename == originalFilenameOf(mapping, payload)
        withPath == finishPath # "" /\ progressPath # ""
        progress == IF withPath THEN progressPath ELSE GetProgressPath
    IN  IF ~StampingCompleted(payload) THEN none
        ELSE IF dl.err # ""
        THEN [none EXCEPT !.err = "download_final", !.events = <<"download_failed">>]
        ELSE [fs |-> IF withPath
                     THEN SaveToFinishAndDeleteProgressWithPath(fs, originalFilename,
                              dl.content, finishPath, progressPath)
                     ELSE SaveToFinishAndDeleteProgress(fs, originalFilename, dl.content),
              err |-> IF RemoveFails(fs, progress, originalFilename)
                      THEN "save_final" ELSE "",
              events |-> <<"download", "finish_write">>
                         \o (IF RemoveFails(fs, progress, originalFilename)
                             THEN <<"progress_delete_failed">>
                             ELSE <<"progress_delete">>),
              content |-> dl.content]

HandleStampingCompleted(fs, payload, mapping, finishPath, progressPath, dl) ==
    LET none == [fs |-> fs, err |-> "", events |-> <<>>, content |-> ""]
        originalFilename == originalFilenameOf(mapping, payload)
        withPath == finishPath # "" /\ progressPath # ""
        progress == IF withPath THEN progressPath ELSE GetProgressPath
    IN  IF ~StampingCompleted(payload) THEN none
        ELSE IF dl.err # ""
        THEN [none EXCEPT !.err = "download_final", !.events = <<"download_failed">>]
        ELSE [fs |-> IF withPath
                     THEN SaveToFinishAndDeleteProgressWithPath(fs, originalFilename,
                              dl.content, finishPath, progressPath)
                     ELSE SaveToFinishAndDeleteProgress(fs, originalFilename, dl.content),
              err |-> "",
              events |-> <<"download", "finish_write">>
                         \o (IF RemoveFails(fs, progress, originalFilename)
                             THEN <<"progress_delete_failed">>
                             ELSE <<"progress_delete">>),
              content |-> dl.content]

\* WebhookHandler.MekariCallback: 400 without a document ID, 500 when ProcessWebhook
\* returns an error, else 200
CallbackStatusAlwaysOK(err) == 200

CallbackStatus(err) ==
    IF err = "bad_request" THEN 400
    ELSE IF err # "" THEN 500
    ELSE 200

WebhookOp(payload, err, events, content, stampId) ==
    [kind |-> "webhook", payload |-> payload, req |-> NoRequest, err |-> err,
     status |-> CallbackStatus(err), events |-> events, content |-> content,
     stampId |-> stampId, posted |-> <<>>]

Respond(fs, dm, di, nc, iss, sc, op) ==
    /\ folders' = fs
    /\ docMap' = dm
    /\ docInfo' = di
    /\ navCache' = nc
    /\ issued' = iss
    /\ stampCount' = sc
    /\ lastOp' = op

\* ProcessWebhook after sendNAVLogEntry returned: the error it continues with; a
\* failed ERP update is logged and processing goes on
NAVLogEntryErrorPropagated(failed) == IF failed THEN "nav_log" ELSE ""

NAVLogEntryError(failed) == ""

\* the outcomes one delivery can meet, in the order ProcessWebhook asks for them
DownloadChoices(wanted, payload) ==
    IF wanted THEN DownloadOutcomes(payload.StampingStatus) ELSE {NoDownload}

StampChoices(payload, mapping, dl) ==
    IF SigningCompleted(payload) /\ dl.err = "" /\ StampingRequired(payload, mapping)
    THEN StampOutcomes ELSE {NoStamp}

\* ProcessWebhook after the mapping was found and the DocumentInfo stored: the new
\* folders and cache and the answer, for one choice of outcomes
ProcessFoundResult(fs, dm, nc, iss, sc, payload, mapping, s1, upd, s2, dlA, st, dlB) ==
    LET log == sendNAVLogEntry(nc, mapping, s1, upd)
        nav == getNAVSetupCached(log.cache, mapping.EntryNo, s2)
        progressPath == IF nav.setup # Nil THEN nav.setup[1].FileLocationProcess ELSE ""
        finishPath == IF nav.setup # Nil THEN nav.setup[1].FileLocationIn ELSE ""
        pre == <<"docinfo">> \o log.events \o nav.events
        a == HandleSigningCompleted(fs, dm, iss, sc, payload, mapping, progressPath, dlA, st)
        b == HandleStampingCompleted(a.fs, payload, mapping, finishPath, progressPath, dlB)
    IN  IF NAVLogEntryError(log.failed) # ""
        THEN [fs |-> fs, docMap |-> dm, navCache |-> log.cache, issued |-> iss,
              stampCount |-> sc,
              op |-> WebhookOp(payload, NAVLogEntryError(log.failed),
                               <<"docinfo">> \o log.events, "", EmptyId)]
        ELSE IF a.err # ""
        THEN [fs |-> a.fs, docMap |-> a.docMap, navCache |-> nav.cache, issued |-> a.issued,
              stampCount |-> a.stampCount,
              op |-> WebhookOp(payload, a.err, pre \o a.events, "", EmptyId)]
        ELSE [fs |-> b.fs, docMap |-> a.docMap, navCache |-> nav.cache, issued |-> a.issued,
              stampCount |-> a.stampCount,
              op |-> WebhookOp(payload, b.err, pre \o a.events \o b.events,
                               IF b.content # "" THEN b.content ELSE a.content,
                               a.stampId)]

ProcessFound(payload, mapping, di) ==
    \E s1 \in SetupChoices(navCache, mapping.EntryNo) :
    \E upd \in UpdateLogEntryOutcomes(s1) :
    \E s2 \in (SetupChoices(sendNAVLogEntry(navCache, mapping, s1, upd).cache,
                            mapping.EntryNo) \cap {s1, "cached"}) :
    \E dlA \in DownloadChoices(SigningCompleted(payload), payload) :
    \E st \in StampChoices(payload, mapping, dlA) :
    \E dlB \in DownloadChoices(StampingCompleted(payload) /\ dlA.err \in {"", "none"},
                               payload) :
      LET r == ProcessFoundResult(folders, docMap, navCache, issued, stampCount, payload,
                                  mapping, s1, upd, s2, dlA, st, dlB)
      IN  Respond(r.fs, r.docMap, di, r.navCache, r.issued, r.stampCount, r.op)

ProcessWebhook(payload) ==
    LET got == Get(docMap, payload.ID)
    IN  IF got.err
        THEN Respond(folders, docMap, docInfo, navCache, issued, stampCount,
                     WebhookOp(payload, "not_found", <<>>, "", EmptyId))
        ELSE LET mapping == ParseMapping(got.data)
                 info == DocumentInfo(payload.ID, mapping.Email,
                                      invoiceNumberOf(mapping, payload), payload.Filename,
                                      payload.SigningStatus, payload.StampingStatus,
                                      payload.DocURL)
             IN  \E infoSet \in BOOLEAN :
                   IF ~infoSet
                   THEN Respond(folders, docMap, docInfo, navCache, issued, stampCount,
                                WebhookOp(payload, "docinfo_set", <<>>, "", EmptyId))
                   ELSE ProcessFound(payload, mapping,
                                     [docInfo EXCEPT ![payload.ID] = Some(info)])

\* WebhookHandler.MekariCallback: 400 without a document ID, 500 on a processing error
MekariCallback ==
    /\ nOps < MaxOps
    /\ nOps' = nOps + 1
    /\ \E payload \in Payloads :
         IF payload.ID = EmptyId
         THEN Respond(folders, docMap, docInfo, navCache, issued, stampCount,
                      WebhookOp(payload, "bad_request", <<>>, "", EmptyId))
         ELSE ProcessWebhook(payload)
    /\ UNCHANGED <<cfg, entryMap, erpSetup, authCodes>>

\* ------------------------------------------------------------------------
\* Sign request initiator
\* ------------------------------------------------------------------------
ValidReminders == {"", "none", "daily", "three_days", "weekly", "monthly"}

\* the signer validation of GlobalRequestSign: "" when the signers pass
ValidateSignersFirstOnly(req) ==
    IF Len(req.Signers) = 0 THEN "at least one signer is required"
    ELSE IF \/ req.Signers[1].Name = ""
            \/ req.Signers[1].Email = ""
            \/ req.Signers[1].SignPage <= 0
            \/ req.Signers[1].SignaturePositions = Nil
    THEN "signer is malformed"
    ELSE ""

ValidateSigners(req) ==
    IF Len(req.Signers) = 0 THEN "at least one signer is required"
    ELSE IF \E i \in 1..Len(req.Signers) :
              \/ req.Signers[i].Name = ""
              \/ req.Signers[i].Email = ""
              \/ req.Signers[i].SignPage <= 0
              \/ req.Signers[i].SignaturePositions = Nil
    THEN "signer is malformed"
    ELSE ""

\* the deadline validation of GlobalRequestSign: "" when there is no deadline or it passes
ValidateDeadlineOffByOne(req) ==
    IF req.DocumentDeadline = Nil THEN ""
    ELSE LET d == req.DocumentDeadline[1]
         IN  IF d.SigningDeadline # 0 /\ (d.SigningDeadline < 3 \/ d.SigningDeadline > 32)
             THEN "signing_deadline must be between 3 and 31"
             ELSE IF d.DaysReminderAfterReceive # 0
                     /\ (d.DaysReminderAfterReceive < 1 \/ d.DaysReminderAfterReceive > 31)
             THEN "days_reminder_after_received must be between 1 and 31"
             ELSE IF d.RecurringReminder \notin ValidReminders
             THEN "recurring_reminder is not valid"
             ELSE ""

ValidateDeadline(req) ==
    IF req.DocumentDeadline = Nil THEN ""
    ELSE LET d == req.DocumentDeadline[1]
         IN  IF d.SigningDeadline # 0 /\ (d.SigningDeadline < 3 \/ d.SigningDeadline > 31)
             THEN "signing_deadline must be between 3 and 31"
             ELSE IF d.DaysReminderAfterReceive # 0
                     /\ (d.DaysReminderAfterReceive < 1 \/ d.DaysReminderAfterReceive > 31)
             THEN "days_reminder_after_received must be between 1 and 31"
             ELSE IF d.RecurringReminder \notin ValidReminders
             THEN "recurring_reminder is not valid"
             ELSE ""

\* the validation of GlobalRequestSign: "" when the request passes
ValidateRequest(req) ==
    IF ValidateSigners(req) # "" THEN ValidateSigners(req) ELSE ValidateDeadline(req)

\* oauthUsecase.CheckCode: whether an authorization code is stored for the email
CheckCodeAlwaysHasCode(codes, email) == [HasCode |-> TRUE]

CheckCode(codes, email) == [HasCode |-> email \in codes]

\* fetchAndCacheNAVSetup: nothing when cached, else fetch and cache (errors are logged)
fetchAndCacheNAVSetup(cache, entryNo, outcome) ==
    IF ~NeedsSetupFetch(cache, entryNo) THEN [cache |-> cache, events |-> <<>>]
    ELSE IF outcome = "disabled" THEN [cache |-> cache, events |-> <<>>]
    ELSE IF outcome = "error" THEN [cache |-> cache, events |-> <<"nav_fetch">>]
    ELSE [cache |-> [cache EXCEPT ![entryNo] = Some(erpSetup)], events |-> <<"nav_fetch">>]

\* httpClient.Post: one request; in OAuth2 mode a 401 answer refreshes the token and
\* sends the request once more
PostOutcomesRetryInAnyMode ==
    { [err |-> "", sends |-> 1], [err |-> "api", sends |-> 1],
      [err |-> "", sends |-> 2], [err |-> "api", sends |-> 2],
      [err |-> "unauthorized", sends |-> 1] }

PostOutcomes ==
    { [err |-> "", sends |-> 1], [err |-> "api", sends |-> 1] }
    \cup (IF IsOAuth2
          THEN { [err |-> "", sends |-> 2], [err |-> "api", sends |-> 2],
                 [err |-> "unauthorized", sends |-> 1] }
          ELSE {})

NoPost == [err |-> "none", sends |-> 0]

SendEvents(n) == [i \in 1..n |-> "sign_request"]

\* calculateSignatureSize: element width and height by the number of signers
calculateSignatureSizeByTwo(signerCount) ==
    IF signerCount <= 2 THEN <<180, 140>>
    ELSE IF signerCount = 3 THEN <<130, 100>>
    ELSE <<110, 85>>

calculateSignatureSize(signerCount) ==
    IF signerCount <= 1 THEN <<180, 140>>
    ELSE IF signerCount = 2 THEN <<150, 120>>
    ELSE IF signerCount = 3 THEN <<130, 100>>
    ELSE <<110, 85>>

SignerAnnotation(page, x, y, width, height) ==
    [Page |-> page, PositionX |-> x, PositionY |-> y,
     ElementWidth |-> width, ElementHeight |-> height]

\* the signers of the provider request: one annotation for a signer with a position
MekariSigners(signers) ==
    LET size == calculateSignatureSize(Len(signers))
    IN  [i \in 1..Len(signers) |->
           [Name |-> signers[i].Name, Email |-> signers[i].Email,
            Annotations |->
              IF signers[i].SignaturePositions # Nil
              THEN LET pos == signers[i].SignaturePositions[1]
                   IN  <<SignerAnnotation(IF pos.Page = 0 THEN signers[i].SignPage
                                          ELSE pos.Page,
                                          pos.X, pos.Y, size[1], size[2])>>
              ELSE <<>>]]

\* esignRepository.GlobalRequestSign: find the file, post it, move it to progress
RepoGlobalRequestSign(fs, cache, iss, req, post) ==
    LET navSetup == cache[req.EntryNo]
        useOut == navSetup # Nil /\ navSetup[1].FileLocationOut # ""
        filename == IF useOut
                    THEN FindDocumentByInvoiceNumberWithPath(fs, req.InvoiceNumber,
                                                             navSetup[1].FileLocationOut)
                    ELSE FindDocumentByInvoiceNumber(fs, req.InvoiceNumber)
        useBoth == useOut /\ navSetup[1].FileLocationProcess # ""
        moved == IF useBoth
                 THEN MoveToProgressWithPath(fs, filename, navSetup[1].FileLocationOut,
                                             navSetup[1].FileLocationProcess)
                 ELSE MoveToProgress(fs, filename)
        moveFails == IF useBoth
                     THEN RenameFails(fs, navSetup[1].FileLocationOut,
                                      navSetup[1].FileLocationProcess, filename)
                     ELSE RenameFails(fs, GetReadyPath, GetProgressPath, filename)
    IN  IF filename = <<>>
        THEN [fs |-> fs, issued |-> iss, err |-> "find", id |-> EmptyId,
              filename |-> <<>>, posted |-> <<>>, events |-> <<"find_failed">>]
        ELSE IF post.err # ""
        THEN [fs |-> fs, issued |-> iss, err |-> post.err, id |-> EmptyId,
              filename |-> filename, posted |-> MekariSigners(req.Signers),
              events |-> <<"find">> \o SendEvents(post.sends)]
        ELSE [fs |-> moved, issued |-> iss + 1, err |-> "", id |-> iss + 1,
              filename |-> filename, posted |-> MekariSigners(req.Signers),
              events |-> <<"find">> \o SendEvents(post.sends)
                         \o (IF moveFails THEN <<"move_failed">> ELSE <<"move">>)]

\* the provider answers with the file name it was sent
ResponseFilename(sent) == sent

\* redisClient.Set of the two mapping keys: the cache takes both writes or neither
MappingSetOutcomes == { [doc |-> ok, entry |-> ok] : ok \in BOOLEAN }

\* saveDocumentAndEntryNoToCache: the mapping under the document ID and the entry
\* number; a failed write is logged and the request goes on
saveDocumentAndEntryNoToCacheRequestName(dm, em, req, id, filename, sets) ==
    LET mapping == DocumentMapping(id, req.Email, req.InvoiceNumber, req.InvoiceNumber,
                                   req.StampPositions, req.DocumentDeadline, req.EntryNo,
                                   req.Signing, req.Stamping)
    IN  [docMap |-> IF sets.doc THEN [dm EXCEPT ![id] = Some(JsonMapping(mapping))] ELSE dm,
         entryMap |-> IF sets.entry
                      THEN [em EXCEPT ![req.EntryNo] = Some(JsonMapping(mapping))]
                      ELSE em,
         events |-> (IF sets.doc THEN <<"mapping_set">> ELSE <<"mapping_set_failed">>)
                    \o (IF sets.entry THEN <<"entry_set">> ELSE <<"entry_set_failed">>)]

saveDocumentAndEntryNoToCache(dm, em, req, id, filename, sets) ==
    LET mapping == DocumentMapping(id, req.Email, req.InvoiceNumber, filename,
                                   req.StampPositions, req.DocumentDeadline, req.EntryNo,
                                   req.Signing, req.Stamping)
    IN  [docMap |-> IF sets.doc THEN [dm EXCEPT ![id] = Some(JsonMapping(mapping))] ELSE dm,
         entryMap |-> IF sets.entry
                      THEN [em EXCEPT ![req.EntryNo] = Some(JsonMapping(mapping))]
                      ELSE em,
         events |-> (IF sets.doc THEN <<"mapping_set">> ELSE <<"mapping_set_failed">>)
                    \o (IF sets.entry THEN <<"entry_set">> ELSE <<"entry_set_failed">>)]

\* what a sign request received, did and answered; posted: the signers sent to the
\* provider, empty when nothing was sent
SignOpPosted(req, err, status, events, id, posted) ==
    [kind |-> "sign", payload |-> NoPayload, req |-> req, err |-> err, status |-> status,
     events |-> events, content |-> "", stampId |-> id, posted |-> posted]

SignOp(req, err, status, events, id) == SignOpPosted(req, err, status, events, id, <<>>)

RespondSign(fs, dm, em, nc, iss, sc, op) ==
    /\ folders' = fs
    /\ docMap' = dm
    /\ entryMap' = em
    /\ navCache' = nc
    /\ issued' = iss
    /\ stampCount' = sc
    /\ lastOp' = op

stampingProcessSwallowsStampFailure(req, nc, pre) ==
    LET got == Get(entryMap, req.EntryNo)
    IN  IF got.err \/ got.data.format # "json"
        THEN RespondSign(folders, docMap, entryMap, nc, issued, stampCount,
                         SignOp(req, "sign_first", 500, pre, EmptyId))
        ELSE LET mapping == ParseMapping(got.data)
             IN  \E dl \in DownloadOutcomes("none") :
                   IF dl.err # ""
                   THEN RespondSign(folders, docMap, entryMap, nc, issued, stampCount,
                                    SignOp(req, "download_signed", 500,
                                           pre \o <<"download_failed">>, EmptyId))
                   ELSE \E st \in StampOutcomes :
                          LET rs == RequestStamping(docMap, issued, stampCount, mapping, st)
                          IN  RespondSign(folders, rs.docMap, entryMap, nc, rs.issued,
                                          stampCount,
                                          SignOp(req,
                                                 "", 201,
                                                 pre \o <<"download">> \o rs.events,
                                                 rs.stampId))

\* stampingProcess: the stamping-only request, from the mapping of the entry number
stampingProcess(req, nc, pre) ==
    LET got == Get(entryMap, req.EntryNo)
    IN  IF got.err \/ got.data.format # "json"
        THEN RespondSign(folders, docMap, entryMap, nc, issued, stampCount,
                         SignOp(req, "sign_first", 500, pre, EmptyId))
        ELSE LET mapping == ParseMapping(got.data)
             IN  \E dl \in DownloadOutcomes("none") :
                   IF dl.err # ""
                   THEN RespondSign(folders, docMap, entryMap, nc, issued, stampCount,
                                    SignOp(req, "download_signed", 500,
                                           pre \o <<"download_failed">>, EmptyId))
                   ELSE \E st \in StampOutcomes :
                          LET rs == RequestStamping(docMap, issued, stampCount, mapping, st)
                          IN  RespondSign(folders, rs.docMap, entryMap, nc, rs.issued,
                                          stampCount,
                                          SignOp(req,
                                                 IF rs.err # "" THEN "stamping" ELSE "",
                                                 IF rs.err # "" THEN 500 ELSE 201,
                                                 pre \o <<"download">> \o rs.events,
                                                 rs.stampId))

\* EsignHandler.GlobalRequestSign over esignUsecase.GlobalRequestSign: 500 on an error,
\* 200 when authorization is needed, 201 on success; for a request out of requests and
\* mapping writes that end as setOutcomes allows
RequestSign(requests, setOutcomes) ==
    /\ nOps < MaxOps
    /\ nOps' = nOps + 1
    /\ \E req \in requests :
       \E s \in SetupChoices(navCache, req.EntryNo) :
         LET nav == fetchAndCacheNAVSetup(navCache, req.EntryNo, s)
             pre == nav.events
         IN  IF IsOAuth2 /\ req.Email = ""
             THEN RespondSign(folders, docMap, entryMap, nav.cache, issued, stampCount,
                              SignOp(req, "email_required", 500, pre, EmptyId))
             ELSE IF IsOAuth2 /\ ~CheckCode(authCodes, req.Email).HasCode
             THEN RespondSign(folders, docMap, entryMap, nav.cache, issued, stampCount,
                              SignOp(req, "need_auth", 200, pre, EmptyId))
             ELSE IF ~req.Signing /\ req.Stamping
             THEN stampingProcess(req, nav.cache, pre)
             ELSE IF ValidateRequest(req) # ""
             THEN RespondSign(folders, docMap, entryMap, nav.cache, issued, stampCount,
                              SignOp(req, "validation", 500, pre, EmptyId))
             ELSE \E post \in (IF (IF nav.cache[req.EntryNo] # Nil
                                      /\ nav.cache[req.EntryNo][1].FileLocationOut # ""
                                   THEN FindDocumentByInvoiceNumberWithPath(folders,
                                            req.InvoiceNumber,
                                            nav.cache[req.EntryNo][1].FileLocationOut)
                                   ELSE FindDocumentByInvoiceNumber(folders,
                                            req.InvoiceNumber)) = <<>>
                               THEN {NoPost} ELSE PostOutcomes) :
                    LET r == RepoGlobalRequestSign(folders, nav.cache, issued, req, post)
                    IN  IF r.err # ""
                        THEN RespondSign(r.fs, docMap, entryMap, nav.cache, r.issued,
                                         stampCount,
                                         SignOpPosted(req, r.err, 500, pre \o r.events,
                                                      EmptyId, r.posted))
                        ELSE \E sets \in setOutcomes :
                             LET c == saveDocumentAndEntryNoToCache(docMap, entryMap, req,
                                          r.id, ResponseFilename(r.filename), sets)
                             IN  RespondSign(r.fs, c.docMap, c.entryMap, nav.cache,
                                             r.issued, stampCount,
                                             SignOpPosted(req, "", 201,
                                                          pre \o r.events \o c.events,
                                                          r.id, r.posted))
    /\ UNCHANGED <<cfg, docInfo, erpSetup, authCodes>>

\* the sign requests of the document lifecycle: the cache takes both mapping writes
MappingSetOK == [doc |-> TRUE, entry |-> TRUE]

GlobalRequestSign == RequestSign(Requests, {MappingSetOK})

\* ------------------------------------------------------------------------
\* OAuth callback
\* ------------------------------------------------------------------------
\* oauthUsecase.SaveCode: the authorization code of an email is stored
SaveCode ==
    /\ nOps < MaxOps
    /\ nOps' = nOps + 1
    /\ \E e \in Emails \ {""} :
         /\ e \notin authCodes
         /\ authCodes' = authCodes \cup {e}
    /\ lastOp' = [kind |-> "oauth", payload |-> NoPayload, req |-> NoRequest, err |-> "",
                  status |-> 200, events |-> <<>>, content |-> "", stampId |-> EmptyId,
                  posted |-> <<>>]
    /\ UNCHANGED <<cfg, folders, docMap, entryMap, docInfo, navCache, erpSetup, issued,
                   stampCount>>

\* ------------------------------------------------------------------------
\* Specification
\* ------------------------------------------------------------------------
EmptyDir == [n \in Filenames |-> Absent]

\* the deployments: HMAC with and without the ERP integration, OAuth2 without it
Configs ==
    { [navEnabled |-> FALSE, authType |-> "hmac"],
      [navEnabled |-> TRUE, authType |-> "hmac"],
      [navEnabled |-> FALSE, authType |-> "oauth2"] }

\* the state after construction, for the setups the ERP may serve
InitCaches(setups) ==
    /\ cfg \in Configs
    /\ docMap = [id \in CacheIds |-> IF id = LegacyId THEN Some(RawEmail("u")) ELSE NoEntry]
    /\ entryMap = [n \in EntryNos |-> NoEntry]
    /\ docInfo = [id \in CacheIds |-> NoEntry]
    /\ navCache = [n \in EntryNos |-> NoEntry]
    /\ erpSetup \in (IF cfg.navEnabled THEN setups ELSE NavSetups)
    /\ authCodes = {}
    /\ issued = 0
    /\ stampCount = [id \in ProviderIds \cup {EmptyId} |-> 0]
    /\ lastOp = [kind |-> "none", payload |-> NoPayload, req |-> NoRequest, err |-> "",
                 status |-> 0, events |-> <<>>, content |-> "", stampId |-> EmptyId,
                 posted |-> <<>>]
    /\ nOps = 0

\* the files queued for signing are in the ready folders
InitState(setups) ==
    /\ folders = [p \in Paths |->
                    IF p \in {GetReadyPath, "nav/out"}
                    THEN [n \in Filenames |-> InitialBytes]
                    ELSE EmptyDir]
    /\ InitCaches(setups)

Init == InitState(NavSetups)

Next ==
    \/ MekariCallback
    \/ GlobalRequestSign
    \/ SaveCode

Spec == Init /\ [][Next]_vars

\* The request-sign endpoint on its own: every request of AllRequests, an ERP setup
\* with or without a process folder, and mapping writes that succeed or fail.
ProcessFolderUnset == NAVSetup("nav/in", "", "nav/out")

GlobalRequestSignAny == RequestSign(AllRequests, MappingSetOutcomes)

RequestInit == InitState(NavSetups \cup {ProcessFolderUnset})

\* the endpoint on its own is followed for one operation less than the lifecycle
MaxRequests == MaxOps - 1

RequestNext ==
    /\ nOps < MaxRequests
    /\ \/ GlobalRequestSignAny
       \/ SaveCode

RequestSpec == RequestInit /\ [][RequestNext]_vars

\* The folder lookup on its own: FindDocumentByInvoiceNumber and FindFilenameInProgress
\* applied to every listing of LookupNames, where an entry is missing, a file or a
\* directory, for every invoice number and configured extension.
LookupNames ==
    { <<"A", "1">>, FileA1, FileA12, <<"A", "1", ".", "p", "d">>,
      <<"B", "9", ".", "p", "d", "f">>, <<"1", ".", "P", "d", "f">> }

Listings == [LookupNames -> {Absent, InitialBytes, Directory}]

ConfiguredExtensions == {<<>>, FileExtension, <<".", "P", "D", "F">>}

LookupInit ==
    /\ \E listing \in Listings :
         folders = [p \in Paths |->
                      IF p \in {GetReadyPath, GetProgressPath} THEN listing ELSE EmptyDir]
    /\ InitCaches(NavSetups)
    /\ ~cfg.navEnabled
    /\ IsHMAC

\* one lookup: the ready-folder one of a sign request or the progress-folder one of a
\* delivery, with the extension of the configuration
FindDocument ==
    /\ nOps < MaxOps
    /\ nOps' = nOps + 1
    /\ \E path \in {GetReadyPath, GetProgressPath} :
       \E inv \in InvoiceNumbers :
       \E ext \in ConfiguredExtensions :
         LET filename == FindFilenameInExt(folders, path, inv, ext)
         IN  lastOp' = [kind |-> "lookup", path |-> path, invoiceNumber |-> inv,
                        extension |-> ext, filename |-> filename,
                        err |-> IF filename = <<>> THEN "not_found" ELSE ""]
    /\ UNCHANGED <<cfg, folders, docMap, entryMap, docInfo, navCache, erpSetup, authCodes,
                   issued, stampCount>>

LookupSpec == LookupInit /\ [][FindDocument]_vars

\* the mapping ProcessWebhook works with for the document ID of a payload
MappingOf(cache, payload) == ParseMapping(Get(cache, payload.ID).data)

\* Two deliveries for one invoice processed at the same time, step by step: the
\* signing-completed delivery for the sign document and the stamping-success delivery
\* for its stamp document. Both have found their mapping and stored their DocumentInfo
\* (steps that touch the cache only); lastOp holds the position of each in
\* ProcessWebhook. No lock is taken anywhere on this path, so the steps of the two
\* interleave freely.
RaceMapping(stamping) ==
    DocumentMapping(1, "u", InvA1, FileA1, IF stamping THEN StampPos ELSE Nil, Nil, 0,
                    TRUE, stamping)

RaceSetup == IF navCache[0] # NoEntry THEN navCache[0] ELSE Nil
RaceProgressPath == IF RaceSetup # Nil THEN RaceSetup[1].FileLocationProcess ELSE ""
RaceFinishPath == IF RaceSetup # Nil THEN RaceSetup[1].FileLocationIn ELSE ""

Delivery(pc, payload) ==
    [pc |-> pc, payload |-> payload, filename |-> <<>>, content |-> "", err |-> "",
     deleted |-> FALSE]

RaceInit ==
    /\ cfg \in Configs
    /\ erpSetup \in NavSetups
    /\ navCache = [n \in EntryNos |-> IF n = 0 /\ cfg.navEnabled
                                       THEN Some(erpSetup) ELSE NoEntry]
    /\ \E stamping \in BOOLEAN :
         docMap = [id \in CacheIds |->
                     IF id \in {1, 2} THEN Some(JsonMapping(RaceMapping(stamping)))
                     ELSE IF id = LegacyId THEN Some(RawEmail("u")) ELSE NoEntry]
    /\ entryMap = [n \in EntryNos |-> NoEntry]
    /\ docInfo = [id \in CacheIds |-> NoEntry]
    /\ authCodes = {}
    /\ issued = 2
    /\ stampCount = [id \in ProviderIds \cup {EmptyId} |-> IF id = 1 THEN 1 ELSE 0]
    /\ nOps = 2
    /\ \E bytes \in {InitialBytes, SignedBytes} : \E other \in {Absent, InitialBytes} :
         folders = [p \in Paths |->
                      IF p = (IF cfg.navEnabled THEN "nav/process" ELSE GetProgressPath)
                      THEN [n \in Filenames |-> IF n = FileA1 THEN bytes ELSE other]
                      ELSE EmptyDir]
    /\ \E st \in {"none", "pending"} :
         lastOp = [kind |-> "race",
                   signing |-> Delivery("download",
                                  WebhookPayload(1, FileA12, "completed", st, "/doc")),
                   stamping |-> Delivery("download",
                                  WebhookPayload(2, FileA12, "completed", "success",
                                                 "/doc"))]

RaceUnchanged == UNCHANGED <<cfg, entryMap, docInfo, navCache, erpSetup, authCodes, nOps>>

\* the position after replaceDocumentInProgress returned
AfterReplace(d) ==
    IF StampingRequired(d.payload, MappingOf(docMap, d.payload)) THEN "stamp" ELSE "done"

\* signing-completed delivery, DownloadDocument
DownloadSigned ==
    /\ lastOp.signing.pc = "download"
    /\ \E dl \in DownloadOutcomes(lastOp.signing.payload.StampingStatus) :
         lastOp' = [lastOp EXCEPT !.signing.content = dl.content,
                                  !.signing.err = dl.err,
                                  !.signing.pc = IF dl.err # "" THEN "done" ELSE "find"]
    /\ UNCHANGED <<folders, docMap, issued, stampCount>>
    /\ RaceUnchanged

\* replaceDocumentInProgress, first half: the directory listing and the match
FindInProgress ==
    /\ lastOp.signing.pc = "find"
    /\ LET mapping == MappingOf(docMap, lastOp.signing.payload)
           inv == invoiceNumberOf(mapping, lastOp.signing.payload)
           filename == IF RaceProgressPath # ""
                       THEN FindFilenameInProgressWithPath(folders, inv, RaceProgressPath)
                       ELSE FindFilenameInProgress(folders, inv)
       IN  lastOp' = [lastOp EXCEPT !.signing.filename = filename,
                                    !.signing.pc = IF filename = <<>>
                                                   THEN AfterReplace(lastOp.signing)
                                                   ELSE "write"]
    /\ UNCHANGED <<folders, docMap, issued, stampCount>>
    /\ RaceUnchanged

\* replaceDocumentInProgress, second half: os.WriteFile under the name found before
ReplaceFound ==
    /\ lastOp.signing.pc = "write"
    /\ folders' = IF RaceProgressPath # ""
                  THEN ReplaceFileInProgressWithPath(folders, lastOp.signing.filename,
                           lastOp.signing.content, RaceProgressPath)
                  ELSE ReplaceFileInProgress(folders, lastOp.signing.filename,
                           lastOp.signing.content)
    /\ lastOp' = [lastOp EXCEPT !.signing.pc = AfterReplace(lastOp.signing)]
    /\ UNCHANGED <<docMap, issued, stampCount>>
    /\ RaceUnchanged

\* the stamp request of the signing-completed delivery; its failure is only logged
StampAfterReplace ==
    /\ lastOp.signing.pc = "stamp"
    /\ \E st \in StampOutcomes :
         LET r == RequestStamping(docMap, issued, stampCount,
                                  MappingOf(docMap, lastOp.signing.payload), st)
         IN  /\ docMap' = r.docMap
             /\ issued' = r.issued
             /\ stampCount' = r.stampCount
    /\ lastOp' = [lastOp EXCEPT !.signing.pc = "done"]
    /\ UNCHANGED folders
    /\ RaceUnchanged

\* stamping-success delivery, DownloadDocument
DownloadFinal ==
    /\ lastOp.stamping.pc = "download"
    /\ \E dl \in DownloadOutcomes(lastOp.stamping.payload.StampingStatus) :
         lastOp' = [lastOp EXCEPT !.stamping.content = dl.content,
                                  !.stamping.err = dl.err,
                                  !.stamping.filename =
                                      originalFilenameOf(
                                          MappingOf(docMap, lastOp.stamping.payload),
                                          lastOp.stamping.payload),
                                  !.stamping.pc = IF dl.err # "" THEN "done" ELSE "save"]
    /\ UNCHANGED <<folders, docMap, issued, stampCount>>
    /\ RaceUnchanged

\* SaveToFinishAndDeleteProgress, first half: os.WriteFile into the finish folder
WriteFinish ==
    /\ lastOp.stamping.pc = "save"
    /\ folders' = WriteFile(folders,
                            IF RaceFinishPath # "" /\ RaceProgressPath # ""
                            THEN RaceFinishPath ELSE GetFinishPath,
                            lastOp.stamping.filename, lastOp.stamping.content)
    /\ lastOp' = [lastOp EXCEPT !.stamping.pc = "delete"]
    /\ UNCHANGED <<docMap, issued, stampCount>>
    /\ RaceUnchanged

\* SaveToFinishAndDeleteProgress, second half: os.Remove in the progress folder; a
\* failure is only logged
DeleteProgress ==
    /\ lastOp.stamping.pc = "delete"
    /\ LET progress == IF RaceFinishPath # "" /\ RaceProgressPath # ""
                       THEN RaceProgressPath ELSE GetProgressPath
       IN  /\ folders' = IF RemoveFails(folders, progress, lastOp.stamping.filename)
                         THEN folders
                         ELSE RemoveFile(folders, progress, lastOp.stamping.filename)
           /\ lastOp' = [lastOp EXCEPT
                           !.stamping.deleted =
                               ~RemoveFails(folders, progress, lastOp.stamping.filename),
                           !.stamping.pc = "done"]
    /\ UNCHANGED <<docMap, issued, stampCount>>
    /\ RaceUnchanged

RaceNext ==
    \/ DownloadSigned
    \/ FindInProgress
    \/ ReplaceFound
    \/ StampAfterReplace
    \/ DownloadFinal
    \/ WriteFinish
    \/ DeleteProgress

RaceSpec == RaceInit /\ [][RaceNext]_vars

\* The token store as a function of the provider's token response: the initial state
\* holds a response with some expires_in (seconds), the action stores its tokens.
MaxExpiresIn == 130
ExpiresInValues == 0..MaxExpiresIn

SafetyMargin == 60

\* the configured refresh_token_age_days
RefreshTokenAgeDays == 22

\* storeTokens: the expiration passed for the access token, in seconds
accessTokenExpiry(expiresIn) ==
    IF expiresIn - SafetyMargin < 0 THEN expiresIn ELSE expiresIn - SafetyMargin

\* RedisClient.Set hands the expiration to the Redis client, which sends an expiry with
\* the key only for an expiration above zero; any other value stores the key to stay
RedisSet(value, expiration) ==
    [value |-> value, expires |-> expiration > 0, ttl |-> expiration]

TokenResponse(expiresIn) ==
    [AccessToken |-> "access", RefreshToken |-> "refresh", ExpiresIn |-> expiresIn]

TokenInit ==
    /\ folders = [p \in Paths |->
                    IF p \in {GetReadyPath, "nav/out"}
                    THEN [n \in Filenames |-> InitialBytes]
                    ELSE EmptyDir]
    /\ cfg = [navEnabled |-> FALSE, authType |-> "oauth2"]
    /\ docMap = [id \in CacheIds |-> IF id = LegacyId THEN Some(RawEmail("u")) ELSE NoEntry]
    /\ entryMap = [n \in EntryNos |-> NoEntry]
    /\ docInfo = [id \in CacheIds |-> NoEntry]
    /\ navCache = [n \in EntryNos |-> NoEntry]
    /\ erpSetup \in NavSetups
    /\ authCodes = {"u"}
    /\ issued = 0
    /\ stampCount = [id \in ProviderIds \cup {EmptyId} |-> 0]
    /\ nOps = 0
    /\ \E e \in ExpiresInValues :
         lastOp = [kind |-> "token_response", tokenResp |-> TokenResponse(e),
                   accessToken |-> NoEntry, refreshToken |-> NoEntry, err |-> ""]

\* storeTokens: the access token with the expiry derived from expires_in, then the
\* refresh token with the configured age; the first failing write ends it
StoreTokens ==
    /\ lastOp.kind = "token_response"
    /\ \E accessSet \in BOOLEAN : \E refreshSet \in BOOLEAN :
         LET access == Some(RedisSet(lastOp.tokenResp.AccessToken,
                                     accessTokenExpiry(lastOp.tokenResp.ExpiresIn)))
             refresh == Some(RedisSet(lastOp.tokenResp.RefreshToken,
                                      RefreshTokenAgeDays * 24 * 3600))
         IN  lastOp' = IF ~accessSet
                       THEN [lastOp EXCEPT !.kind = "tokens_stored",
                                           !.err = "store_access"]
                       ELSE IF ~refreshSet
                       THEN [lastOp EXCEPT !.kind = "tokens_stored",
                                           !.accessToken = access,
                                           !.err = "store_refresh"]
                       ELSE [lastOp EXCEPT !.kind = "tokens_stored",
                                           !.accessToken = access,
                                           !.refreshToken = refresh]
    /\ UNCHANGED <<cfg, folders, docMap, entryMap, docInfo, navCache, erpSetup, authCodes,
                   issued, nOps, stampCount>>

TokenSpec == TokenInit /\ [][StoreTokens]_vars

\* The runs in which nothing fails: every operation is answered without error, the
\* provider, the ERP and the cache answer every call of it with success, and the
\* provider needs no second send.
OperationSucceeds ==
    /\ lastOp'.err = ""
    /\ { lastOp'.events[i] : i \in 1..Len(lastOp'.events) }
         \cap {"erp_update_failed", "download_failed", "stamp_failed",
               "mapping_set_failed", "entry_set_failed"} = {}
    /\ Cardinality({ i \in 1..Len(lastOp'.events) : lastOp'.events[i] = "sign_request" }) <= 1
    /\ \A i \in 1..Len(lastOp'.events) :
         lastOp'.events[i] = "stamp_request"
           => i < Len(lastOp'.events) /\ lastOp'.events[i + 1] = "mapping_set"
    /\ cfg.navEnabled
         => /\ lastOp'.kind = "sign" => navCache'[lastOp'.req.EntryNo] # NoEntry
            /\ (lastOp'.kind = "webhook" /\ docMap[lastOp'.payload.ID] # NoEntry)
                 => navCache'[ParseMapping(docMap[lastOp'.payload.ID][1]).EntryNo] # NoEntry

LifecycleNext ==
    \/ MekariCallback /\ OperationSucceeds
    \/ GlobalRequestSign /\ OperationSucceeds
    \/ SaveCode /\ OperationSucceeds

LifecycleSpec == Init /\ [][LifecycleNext]_vars

\* ------------------------------------------------------------------------
\* Properties
\* ------------------------------------------------------------------------
\* In the formulas below a step whose lastOp' is a webhook operation is one delivery:
\* lastOp' is what it received and did, the unprimed variables are the state it found.
EventsOf(op) == { op.events[i] : i \in 1..Len(op.events) }

\* C1: a delivery whose document ID has no DocumentMapping in the cache is answered
\* with an error; it changes no folder, writes no DocumentInfo, sends no ERP update,
\* downloads nothing and sends no stamp request.
C1_NoMappingNoEffect ==
    [][ ( /\ lastOp'.kind = "webhook"
          /\ lastOp'.payload.ID # EmptyId
          /\ docMap[lastOp'.payload.ID] = NoEntry )
        => /\ lastOp'.err = "not_found"
           /\ lastOp'.status = 500
           /\ folders' = folders
           /\ docInfo' = docInfo
           /\ docMap' = docMap
           /\ stampCount' = stampCount
           /\ EventsOf(lastOp') \cap {"docinfo", "erp_update", "erp_update_failed",
                                      "download", "download_failed", "stamp_request"} = {}
      ]_vars

C1_Witness ==
    /\ lastOp.kind = "webhook"
    /\ lastOp.err = "not_found"
    /\ docMap[lastOp.payload.ID] = NoEntry

\* C2: a delivery sends a stamp request only when signing_status is completed,
\* stamping_status is none, the cached mapping has stamp positions and its stamping
\* flag is set.
C2_StampOnlyWhenRequired ==
    [][ ( /\ lastOp'.kind = "webhook"
          /\ \/ "stamp_request" \in EventsOf(lastOp')
             \/ stampCount' # stampCount )
        => /\ lastOp'.payload.SigningStatus = "completed"
           /\ lastOp'.payload.StampingStatus = "none"
           /\ docMap[lastOp'.payload.ID] # NoEntry
           /\ MappingOf(docMap, lastOp'.payload).StampPositions # Nil
           /\ MappingOf(docMap, lastOp'.payload).Stamping
      ]_vars

C2_Witness ==
    /\ lastOp.kind = "webhook"
    /\ "stamp_request" \in EventsOf(lastOp)
    /\ lastOp.payload.SigningStatus = "completed"
    /\ lastOp.payload.StampingStatus = "none"

\* C3: over any sequence of deliveries, at most one stamp request is sent for one
\* sign request (stampCount is indexed by the document ID of the sign request, which
\* the copied mapping keeps).
C3_AtMostOneStampRequest ==
    \A d \in DOMAIN stampCount : stampCount[d] <= 1

\* C4: after a stamp request that succeeded and whose cache write succeeded, the cache
\* holds under the new stamp-document ID a mapping with the invoice number, file name
\* and stamp positions of the original document's mapping.
C4_MappingCopiedForward ==
    [][ ( /\ lastOp'.kind = "webhook"
          /\ "mapping_set" \in EventsOf(lastOp') )
        => /\ lastOp'.stampId # EmptyId
           /\ lastOp'.stampId # lastOp'.payload.ID
           /\ docMap[lastOp'.stampId] = NoEntry
           /\ docMap'[lastOp'.stampId] # NoEntry
           /\ LET orig == MappingOf(docMap, lastOp'.payload)
                  copy == ParseMapping(Get(docMap', lastOp'.stampId).data)
              IN  /\ copy.InvoiceNumber = orig.InvoiceNumber
                  /\ copy.Filename = orig.Filename
                  /\ copy.StampPositions = orig.StampPositions
      ]_vars

C4_Witness ==
    /\ lastOp.kind = "webhook"
    /\ "mapping_set" \in EventsOf(lastOp)
    /\ docMap[lastOp.stampId] # NoEntry

\* the folders a delivery works on, given the ERP setup it resolved (Nil when none):
\* the progress folder of the replacement, and the finish/progress pair of the final save
ReadyFolders == {GetReadyPath, "nav/out"}
FinishFolders == {GetFinishPath, "nav/in"}
ProgressFolders == {GetProgressPath, "nav/process"}

ReplaceFolder(setup) ==
    IF setup # Nil /\ setup[1].FileLocationProcess # ""
    THEN setup[1].FileLocationProcess
    ELSE GetProgressPath

FinishPair(setup) ==
    IF setup # Nil /\ setup[1].FileLocationIn # "" /\ setup[1].FileLocationProcess # ""
    THEN [finish |-> setup[1].FileLocationIn, progress |-> setup[1].FileLocationProcess]
    ELSE [finish |-> GetFinishPath, progress |-> GetProgressPath]

\* C5: a delivery with stamping_status = success whose download succeeds writes the
\* downloaded bytes to the finish folder under the mapping's file name (the payload's
\* when the mapping has none), removes the file of that name from the progress folder
\* and leaves the ready folder unchanged.
C5_FinalDocumentSaved ==
    [][ ( /\ lastOp'.kind = "webhook"
          /\ lastOp'.payload.StampingStatus = "success"
          /\ lastOp'.payload.ID # EmptyId
          /\ docMap[lastOp'.payload.ID] # NoEntry
          /\ lastOp'.content # "" )
        => LET mapping == MappingOf(docMap, lastOp'.payload)
               name == IF mapping.Filename # <<>> THEN mapping.Filename
                       ELSE lastOp'.payload.Filename
               pair == FinishPair(navCache'[mapping.EntryNo])
           IN  /\ lastOp'.content = StampedBytes
               /\ folders'[pair.finish][name] = lastOp'.content
               /\ folders'[pair.progress][name] = Absent
               /\ \A r \in ReadyFolders : folders'[r] = folders[r]
               /\ lastOp'.status = 200
      ]_vars

C5_Witness ==
    /\ lastOp.kind = "webhook"
    /\ lastOp.payload.StampingStatus = "success"
    /\ "progress_delete" \in EventsOf(lastOp)
    /\ \E f \in FinishFolders : folders[f][FileA1] = StampedBytes

\* C6: a delivery with signing_status = completed and stamping_status = none for a
\* mapping without stamp positions, or with the stamping flag off, whose download
\* succeeds overwrites the progress-folder file matching the invoice number with the
\* signed bytes, sends no stamp request and leaves the ready and finish folders
\* unchanged.
C6_SignedDocumentReplaced ==
    [][ ( /\ lastOp'.kind = "webhook"
          /\ lastOp'.payload.SigningStatus = "completed"
          /\ lastOp'.payload.StampingStatus = "none"
          /\ lastOp'.payload.ID # EmptyId
          /\ docMap[lastOp'.payload.ID] # NoEntry
          /\ \/ MappingOf(docMap, lastOp'.payload).StampPositions = Nil
             \/ ~MappingOf(docMap, lastOp'.payload).Stamping
          /\ lastOp'.content # "" )
        => LET mapping == MappingOf(docMap, lastOp'.payload)
               inv == IF mapping.InvoiceNumber # <<>> THEN mapping.InvoiceNumber
                      ELSE extractInvoiceNumber(lastOp'.payload.Filename)
               progress == ReplaceFolder(navCache'[mapping.EntryNo])
               match == MatchesIn(folders[progress], inv)
           IN  /\ lastOp'.content = SignedBytes
               /\ match # {} =>
                    \E n \in match : /\ folders'[progress][n] = lastOp'.content
                                     /\ \A o \in match : o = n \/ StrLess(n, o)
               /\ stampCount' = stampCount
               /\ "stamp_request" \notin EventsOf(lastOp')
               /\ \A r \in ReadyFolders \cup FinishFolders : folders'[r] = folders[r]
      ]_vars

C6_Witness ==
    /\ lastOp.kind = "webhook"
    /\ lastOp.payload.SigningStatus = "completed"
    /\ lastOp.payload.StampingStatus = "none"
    /\ "replace" \in EventsOf(lastOp)
    /\ "stamp_request" \notin EventsOf(lastOp)
    /\ lastOp.payload.ID \in ProviderIds
    /\ \E p \in ProgressFolders : \E n \in Filenames : folders[p][n] = SignedBytes

\* C7: one delivery runs at most one of the two branches: the signing-completed branch
\* only when stamping_status # success, the finish branch only when stamping_status =
\* success; no delivery both rewrites a progress file and writes a finish file.
C7_BranchesExclusive ==
    [][ lastOp'.kind = "webhook"
        => /\ EventsOf(lastOp') \cap {"replace", "replace_failed", "stamp_request"} # {}
                => lastOp'.payload.StampingStatus # "success"
           /\ EventsOf(lastOp') \cap {"finish_write", "progress_delete",
                                      "progress_delete_failed"} # {}
                => lastOp'.payload.StampingStatus = "success"
           /\ ~ ( /\ "replace" \in EventsOf(lastOp')
                  /\ "finish_write" \in EventsOf(lastOp') )
           /\ ~ ( /\ \E p \in ProgressFolders : \E n \in Filenames :
                        folders'[p][n] # folders[p][n] /\ folders'[p][n] # Absent
                  /\ \E f \in FinishFolders : folders'[f] # folders[f] )
           /\ Cardinality({ i \in 1..Len(lastOp'.events) :
                               lastOp'.events[i] \in {"download", "download_failed"} }) <= 1
      ]_vars

C7_Witness ==
    /\ lastOp.kind = "webhook"
    /\ lastOp.payload.SigningStatus = "completed"
    /\ lastOp.payload.StampingStatus = "success"
    /\ "finish_write" \in EventsOf(lastOp)
    /\ "replace" \notin EventsOf(lastOp)

C9_StampFailureSwallowed ==
    [][ ( /\ lastOp'.kind = "webhook"
          /\ EventsOf(lastOp') \cap {"stamp_request", "stamp_failed"} # {} )
        => LET ev == lastOp'.events
               mapping == MappingOf(docMap, lastOp'.payload)
               progress == ReplaceFolder(navCache'[mapping.EntryNo])
               inv == IF mapping.InvoiceNumber # <<>> THEN mapping.InvoiceNumber
                      ELSE extractInvoiceNumber(lastOp'.payload.Filename)
           IN  /\ \A i \in 1..Len(ev) :
                    ev[i] \in {"stamp_request", "stamp_failed"}
                      => \E j \in 1..(i - 1) : ev[j] \in {"replace", "replace_failed"}
               /\ MatchesIn(folders[progress], inv) # {}
                    => \E n \in MatchesIn(folders[progress], inv) :
                         folders'[progress][n] = SignedBytes
               /\ Cardinality({ i \in 1..Len(ev) : ev[i] = "stamp_request" }) <= 1
               /\ stampCount'[mapping.DocumentID] <= stampCount[mapping.DocumentID] + 1
               /\ "stamp_failed" \in EventsOf(lastOp')
                    => /\ lastOp'.err = ""
                       /\ lastOp'.status = 200
                       /\ docMap' = docMap
                       /\ "mapping_set" \notin EventsOf(lastOp')
      ]_vars

C9_Witness ==
    /\ lastOp.kind = "webhook"
    /\ lastOp.events = <<"docinfo", "download", "replace", "stamp_request", "stamp_failed">>
    /\ lastOp.status = 200

\* C10: a delivery whose download fails, in either branch, is answered with an error
\* (HTTP 500); it creates, changes or deletes no file, sends no stamp request and
\* writes no DocumentMapping.
C10_DownloadFailureNoEffect ==
    [][ ( /\ lastOp'.kind = "webhook"
          /\ "download_failed" \in EventsOf(lastOp') )
        => /\ lastOp'.err \in {"download_signed", "download_final"}
           /\ lastOp'.err = "download_final" <=> lastOp'.payload.StampingStatus = "success"
           /\ lastOp'.status = 500
           /\ folders' = folders
           /\ docMap' = docMap
           /\ stampCount' = stampCount
           /\ EventsOf(lastOp') \cap {"replace", "stamp_request", "mapping_set",
                                      "finish_write", "progress_delete"} = {}
      ]_vars

C10_Witness ==
    /\ lastOp.kind = "webhook"
    /\ "download_failed" \in EventsOf(lastOp)
    /\ lastOp.status = 500
    /\ lastOp.payload.ID \in ProviderIds

\* C11: a failed ERP log-entry update is swallowed: a delivery whose UpdateLogEntry
\* failed gives the answer, folders, mapping cache, setup cache and stamp requests that
\* ProcessWebhook gives, for the same payload, state and other outcomes, when
\* UpdateLogEntry succeeds.
C11_ErpUpdateFailureSwallowed ==
    [][ ( /\ lastOp'.kind = "webhook"
          /\ "erp_update_failed" \in EventsOf(lastOp') )
        => LET payload == lastOp'.payload
               mapping == MappingOf(docMap, payload)
               Met(r) == r.op = lastOp' /\ r.fs = folders' /\ r.docMap = docMap'
               Run(s1, upd, s2, dlA, st, dlB) ==
                   ProcessFoundResult(folders, docMap, navCache, issued, stampCount,
                                      payload, mapping, s1, upd, s2, dlA, st, dlB)
               Same(ok) ==
                   /\ "erp_update" \in EventsOf(ok.op)
                   /\ ok.op.err = lastOp'.err
                   /\ ok.op.status = lastOp'.status
                   /\ ok.op.content = lastOp'.content
                   /\ ok.op.stampId = lastOp'.stampId
                   /\ ok.fs = folders'
                   /\ ok.docMap = docMap'
                   /\ ok.navCache = navCache'
                   /\ ok.stampCount = stampCount'
           IN  \E s1 \in SetupChoices(navCache, mapping.EntryNo) :
               \E s2 \in (SetupChoices(sendNAVLogEntry(navCache, mapping, s1, "fail").cache,
                                       mapping.EntryNo) \cap {s1, "cached"}) :
               \E dlA \in DownloadChoices(SigningCompleted(payload), payload) :
               \E st \in StampChoices(payload, mapping, dlA) :
               \E dlB \in DownloadChoices(StampingCompleted(payload), payload) :
                 /\ Met(Run(s1, "fail", s2, dlA, st, dlB))
                 /\ Same(Run(s1, "ok", s2, dlA, st, dlB))
      ]_vars

C11_Witness ==
    /\ lastOp.kind = "webhook"
    /\ "erp_update_failed" \in EventsOf(lastOp)
    /\ "replace" \in EventsOf(lastOp)
    /\ lastOp.status = 200
    /\ \E p \in ProgressFolders : \E n \in Filenames : folders[p][n] = SignedBytes

\* C12: a DocumentMapping, once stored under a document ID or under an entry number, is
\* never changed or deleted by a later sign request or delivery; later mapping writes
\* only add entries under new document IDs.
C12_MappingWrittenOnce ==
    [][ /\ \A id \in CacheIds : docMap[id] # NoEntry => docMap'[id] = docMap[id]
        /\ \A n \in EntryNos : entryMap[n] # NoEntry => entryMap'[n] = entryMap[n]
      ]_vars

\* In the formulas below a step whose lastOp' is a sign operation is one call of the
\* request-sign endpoint.  A signing request is one that is not stamping-only; it
\* reaches the validation when the authorization gate lets it through.
IsSigningRequest(req) == req.Signing \/ ~req.Stamping

PastAuthorization(req) == IsHMAC \/ (req.Email # "" /\ req.Email \in authCodes)

\* the ready and progress folders of a sign request, given the cached ERP setup
SignReadyFolder(setup) ==
    IF setup # Nil /\ setup[1].FileLocationOut # "" THEN setup[1].FileLocationOut
    ELSE GetReadyPath

SignProgressFolder(setup) ==
    IF setup # Nil /\ setup[1].FileLocationProcess # "" THEN setup[1].FileLocationProcess
    ELSE GetProgressPath

\* the file a sign request resolves: the first name of the sorted listing of the ready
\* folder that has the extension and contains the invoice number
ResolvedFile(fs, ready, invoiceNumber) ==
    CHOOSE n \in MatchesIn(fs[ready], invoiceNumber) :
      \A o \in MatchesIn(fs[ready], invoiceNumber) : o = n \/ StrLess(n, o)

NoSignEffect ==
    /\ "sign_request" \notin EventsOf(lastOp')
    /\ lastOp'.posted = <<>>
    /\ folders' = folders
    /\ docMap' = docMap
    /\ entryMap' = entryMap

C14_FileMovesOnlyOnSuccess ==
    [][ ( /\ lastOp'.kind = "sign"
          /\ IsSigningRequest(lastOp'.req) )
        => LET setup == navCache'[lastOp'.req.EntryNo]
               ready == SignReadyFolder(setup)
               progress == SignProgressFolder(setup)
           IN  /\ lastOp'.status = 201
                    => LET name == ResolvedFile(folders, ready, lastOp'.req.InvoiceNumber)
                       IN  /\ folders'[ready][name] = Absent
                           /\ folders'[progress][name] = folders[ready][name]
               /\ lastOp'.status # 201
                    => /\ folders' = folders
                       /\ docMap' = docMap
                       /\ entryMap' = entryMap
      ]_vars

\* what C15 calls a malformed signer list
SignersMalformed(signers) ==
    \/ Len(signers) = 0
    \/ \E i \in 1..Len(signers) :
         \/ signers[i].Name = ""
         \/ signers[i].Email = ""
         \/ ~(signers[i].SignPage > 0)
         \/ signers[i].SignaturePositions = Nil

\* C15: a signing request whose signer list is empty, or in which some signer lacks a
\* name, an email, a sign page greater than 0 or signature positions, is never accepted:
\* past the authorization gate it is rejected by the validation; it sends nothing to
\* the provider, moves no file and writes no DocumentMapping.
C15_MalformedSignersRejected ==
    [][ ( /\ lastOp'.kind = "sign"
          /\ IsSigningRequest(lastOp'.req)
          /\ SignersMalformed(lastOp'.req.Signers) )
        => /\ lastOp'.status # 201
           /\ lastOp'.err \in {"validation", "need_auth", "email_required"}
           /\ PastAuthorization(lastOp'.req) => lastOp'.err = "validation"
           /\ NoSignEffect
      ]_vars

C15_Witness ==
    /\ lastOp.kind = "sign"
    /\ lastOp.err = "validation"
    /\ Len(lastOp.req.Signers) = 2
    /\ lastOp.req.Signers[1] = GoodSigner
    /\ lastOp.req.Signers[2].SignaturePositions = Nil

\* what C16 calls a deadline within the limits
DeadlineWithinLimits(d) ==
    /\ d.SigningDeadline = 0 \/ d.SigningDeadline \in 3..31
    /\ d.DaysReminderAfterReceive = 0 \/ d.DaysReminderAfterReceive \in 1..31
    /\ d.RecurringReminder \in {"", "none", "daily", "three_days", "weekly", "monthly"}

\* C16: a signing request with well-formed signers and a document deadline passes the
\* validation exactly when the deadline is within the limits; one that is not is
\* rejected and reaches neither the provider nor the folders.
C16_DeadlineValidation ==
    [][ ( /\ lastOp'.kind = "sign"
          /\ IsSigningRequest(lastOp'.req)
          /\ ~SignersMalformed(lastOp'.req.Signers)
          /\ lastOp'.req.DocumentDeadline # Nil )
        => LET d == lastOp'.req.DocumentDeadline[1]
           IN  /\ lastOp'.status = 201 => DeadlineWithinLimits(d)
               /\ DeadlineWithinLimits(d) => lastOp'.err # "validation"
               /\ ~DeadlineWithinLimits(d)
                    => /\ lastOp'.err \in {"validation", "need_auth", "email_required"}
                       /\ PastAuthorization(lastOp'.req) => lastOp'.err = "validation"
                       /\ NoSignEffect
      ]_vars

C16_Witness ==
    /\ lastOp.kind = "sign"
    /\ lastOp.status = 201
    /\ lastOp.req.DocumentDeadline # Nil
    /\ lastOp.req.DocumentDeadline[1].SigningDeadline = 31
    /\ "sign_request" \in EventsOf(lastOp)

\* the sizes C17 states
ExpectedSize(signerCount) ==
    CASE signerCount = 1 -> <<180, 140>>
      [] signerCount = 2 -> <<150, 120>>
      [] signerCount = 3 -> <<130, 100>>
      [] signerCount >= 4 -> <<110, 85>>

\* C17: every signer annotation of a request sent to the provider carries the size of
\* the request's signer count: (180,140) for 1, (150,120) for 2, (130,100) for 3 and
\* (110,85) for 4 or more; the size never grows with the signer count.
C17_SignatureSizeBySignerCount ==
    [][ ( /\ lastOp'.kind = "sign"
          /\ "sign_request" \in EventsOf(lastOp') )
        => LET n == Len(lastOp'.req.Signers)
           IN  /\ n >= 1
               /\ Len(lastOp'.posted) = n
               /\ \A i \in 1..n :
                    /\ Len(lastOp'.posted[i].Annotations) = 1
                    /\ lastOp'.posted[i].Annotations[1].ElementWidth = ExpectedSize(n)[1]
                    /\ lastOp'.posted[i].Annotations[1].ElementHeight = ExpectedSize(n)[2]
               /\ \A m \in 1..n :
                    /\ calculateSignatureSize(m)[1] >= calculateSignatureSize(n)[1]
                    /\ calculateSignatureSize(m)[2] >= calculateSignatureSize(n)[2]
      ]_vars

C17_Witness ==
    /\ lastOp.kind = "sign"
    /\ lastOp.status = 201
    /\ Len(lastOp.req.Signers) > 4
    /\ Len(lastOp.posted) = Len(lastOp.req.Signers)
    /\ lastOp.posted[2].Annotations[1].ElementWidth = 110
    /\ lastOp.posted[2].Annotations[1].Page = 2

\* C18: in OAuth2 mode a request whose email has no stored authorization code is
\* answered with NeedAuth and the redirect URL (HTTP 200); it calls the provider for
\* nothing, moves no file and writes no DocumentMapping, whatever else the request
\* holds.  In HMAC mode no request is answered that way.
C18_NeedAuthShortCircuit ==
    [][ lastOp'.kind = "sign"
        => /\ ( /\ IsOAuth2
                /\ lastOp'.req.Email # ""
                /\ lastOp'.req.Email \notin authCodes )
                => /\ lastOp'.err = "need_auth"
                   /\ lastOp'.status = 200
                   /\ NoSignEffect
                   /\ EventsOf(lastOp') \cap {"find", "find_failed", "download",
                                              "download_failed", "stamp_request", "move",
                                              "mapping_set"} = {}
                   /\ issued' = issued
           /\ lastOp'.err = "need_auth"
                => IsOAuth2 /\ ~IsHMAC /\ lastOp'.req.Email \notin authCodes
      ]_vars

C18_Witness ==
    /\ lastOp.kind = "sign"
    /\ lastOp.err = "need_auth"
    /\ lastOp.status = 200
    /\ lastOp.req.Signers # <<>>
    /\ cfg.authType = "oauth2"
    /\ folders[GetReadyPath][FileA1] = InitialBytes

\* C19: the request-sign endpoint answers 201 when the sign request succeeds, 200 when
\* prior authorization is required and 400 when the request fails the validation.
C19_RequestSignStatus ==
    [][ lastOp'.kind = "sign"
        => /\ lastOp'.err = "" => lastOp'.status = 201
           /\ lastOp'.err = "need_auth" => lastOp'.status = 200
           /\ ( /\ IsSigningRequest(lastOp'.req)
                /\ PastAuthorization(lastOp'.req)
                /\ \/ SignersMalformed(lastOp'.req.Signers)
                   \/ /\ lastOp'.req.DocumentDeadline # Nil
                      /\ ~DeadlineWithinLimits(lastOp'.req.DocumentDeadline[1]) )
                => lastOp'.status = 400
      ]_vars

\* the entry number an operation works for: the request's, or the found mapping's
EntryNoOf(op, cache) ==
    IF op.kind = "sign" THEN {op.req.EntryNo}
    ELSE IF op.kind = "webhook" /\ op.payload.ID # EmptyId /\ ~Get(cache, op.payload.ID).err
    THEN {MappingOf(cache, op.payload).EntryNo}
    ELSE {}

C21_ErpPathsTakePrecedence ==
    [][ /\ ( /\ lastOp'.kind = "sign"
             /\ IsSigningRequest(lastOp'.req)
             /\ lastOp'.status = 201 )
           => LET setup == navCache'[lastOp'.req.EntryNo]
                  name == ResolvedFile(folders, SignReadyFolder(setup),
                                       lastOp'.req.InvoiceNumber)
              IN  /\ (setup # Nil /\ setup[1].FileLocationOut # "")
                       => /\ folders'[GetReadyPath] = folders[GetReadyPath]
                          /\ folders'[setup[1].FileLocationOut][name] = Absent
                  /\ (setup # Nil /\ setup[1].FileLocationProcess # "")
                       => /\ folders'[GetProgressPath] = folders[GetProgressPath]
                          /\ folders'[setup[1].FileLocationProcess][name] # Absent
        /\ ( /\ lastOp'.kind = "webhook"
             /\ lastOp'.payload.ID # EmptyId
             /\ docMap[lastOp'.payload.ID] # NoEntry )
           => LET setup == navCache'[MappingOf(docMap, lastOp'.payload).EntryNo]
              IN  /\ (setup # Nil /\ setup[1].FileLocationProcess # "")
                       => folders'[GetProgressPath] = folders[GetProgressPath]
                  /\ (setup # Nil /\ setup[1].FileLocationIn # "")
                       => folders'[GetFinishPath] = folders[GetFinishPath]
      ]_vars

\* what C22 calls the snapshot of a delivery: the entry of the payload's document ID
\* holds the payload's statuses and URL, every other entry is as it was
SnapshotStored(payload) ==
    /\ docInfo'[payload.ID] # NoEntry
    /\ docInfo'[payload.ID][1].DocumentID = payload.ID
    /\ docInfo'[payload.ID][1].SigningStatus = payload.SigningStatus
    /\ docInfo'[payload.ID][1].StampingStatus = payload.StampingStatus
    /\ docInfo'[payload.ID][1].DocURL = payload.DocURL
    /\ \A id \in CacheIds \ {payload.ID} : docInfo'[id] = docInfo[id]

\* C22 as stated: after any delivery that found a mapping the DocumentInfo entry of its
\* document ID holds the statuses and URL of its payload, and no other entry changed.
C22_DocumentInfoSnapshot ==
    [][ ( /\ lastOp'.kind = "webhook"
          /\ lastOp'.payload.ID # EmptyId
          /\ docMap[lastOp'.payload.ID] # NoEntry )
        => SnapshotStored(lastOp'.payload)
      ]_vars

\* C22 amended: the same when the cache took the DocumentInfo write, also when a later
\* step of the delivery fails; when the write fails the delivery is answered with an
\* error and no DocumentInfo entry, folder or mapping changes.
C22_DocumentInfoSnapshotWhenStored ==
    [][ ( /\ lastOp'.kind = "webhook"
          /\ lastOp'.payload.ID # EmptyId
          /\ docMap[lastOp'.payload.ID] # NoEntry )
        => /\ "docinfo" \in EventsOf(lastOp') \/ lastOp'.err = "docinfo_set"
           /\ "docinfo" \in EventsOf(lastOp') => SnapshotStored(lastOp'.payload)
           /\ lastOp'.err = "docinfo_set"
                => /\ lastOp'.status = 500
                   /\ lastOp'.events = <<>>
                   /\ docInfo' = docInfo
                   /\ folders' = folders
                   /\ docMap' = docMap
      ]_vars

\* a second delivery for the same document whose download failed: the entry written by
\* the first one was replaced
C22_Witness ==
    /\ lastOp.kind = "webhook"
    /\ lastOp.payload.ID \in ProviderIds
    /\ lastOp.err = "download_final"
    /\ lastOp.status = 500
    /\ docInfo[lastOp.payload.ID] # NoEntry
    /\ docInfo[lastOp.payload.ID][1].StampingStatus = "success"
    /\ nOps >= 3

\* how often an operation did one thing
CountOf(op, event) == Cardinality({ i \in 1..Len(op.events) : op.events[i] = event })

\* C23 as stated: within one sign request or one delivery each request to the provider
\* is sent at most once, and a failed outbound call fails the operation.
C23_NoOutboundRetry ==
    [][ lastOp'.kind \in {"sign", "webhook"}
        => /\ CountOf(lastOp', "sign_request") <= 1
           /\ CountOf(lastOp', "stamp_request") <= 1
           /\ CountOf(lastOp', "download") + CountOf(lastOp', "download_failed") <= 1
           /\ ( \/ lastOp'.err \in {"api", "unauthorized"}
                \/ "download_failed" \in EventsOf(lastOp')
                \/ "stamp_failed" \in EventsOf(lastOp') )
                => lastOp'.status = 500
      ]_vars

\* C23 amended: the sign request is sent once, or twice in OAuth2 mode (a 401 answer,
\* a token refresh, one more send); a stamp request and a download are sent once; a
\* failed sign request or download fails the operation at once and changes nothing; a
\* failed stamp request fails a stamping-only request and is swallowed by a delivery.
C23_RetryOnlyAfterUnauthorized ==
    [][ lastOp'.kind \in {"sign", "webhook"}
        => /\ CountOf(lastOp', "sign_request") <= (IF IsOAuth2 THEN 2 ELSE 1)
           /\ CountOf(lastOp', "stamp_request") <= 1
           /\ CountOf(lastOp', "download") + CountOf(lastOp', "download_failed") <= 1
           /\ lastOp'.err \in {"api", "unauthorized"}
                => /\ lastOp'.kind = "sign"
                   /\ lastOp'.status = 500
                   /\ lastOp'.events[Len(lastOp'.events)] = "sign_request"
                   /\ lastOp'.err = "unauthorized" => CountOf(lastOp', "sign_request") = 1
                   /\ folders' = folders /\ docMap' = docMap /\ entryMap' = entryMap
           /\ "download_failed" \in EventsOf(lastOp')
                => /\ lastOp'.status = 500
                   /\ lastOp'.events[Len(lastOp'.events)] = "download_failed"
                   /\ folders' = folders /\ docMap' = docMap /\ entryMap' = entryMap
           /\ "stamp_failed" \in EventsOf(lastOp')
                => /\ lastOp'.events[Len(lastOp'.events)] = "stamp_failed"
                   /\ lastOp'.status = (IF lastOp'.kind = "sign" THEN 500 ELSE 200)
                   /\ docMap' = docMap
      ]_vars

C23_Witness ==
    /\ lastOp.kind = "sign"
    /\ cfg.authType = "oauth2"
    /\ CountOf(lastOp, "sign_request") = 2
    /\ lastOp.status = 201
    /\ "move" \in EventsOf(lastOp)

\* what C24 asks of a directory entry
Qualifies(dir, n, invoiceNumber, configured) ==
    /\ dir[n] # Absent
    /\ dir[n] # Directory
    /\ LET ext == IF configured = <<>> THEN <<".", "p", "d", "f">> ELSE configured
       IN  /\ Len(n) >= Len(ext)
           /\ \A i \in 1..Len(ext) :
                 LowerChar(n[Len(n) - Len(ext) + i]) = LowerChar(ext[i])
    /\ \E i \in 0..(Len(n) - Len(invoiceNumber)) :
         \A j \in 1..Len(invoiceNumber) : n[i + j] = invoiceNumber[j]

\* C24: the folder lookup returns the first entry of the sorted listing that is no
\* directory, ends with the configured extension (".pdf" by default, letter case
\* ignored) and contains the invoice number; it fails with not-found when no entry
\* qualifies and never returns a name that does not qualify.
C24_LookupFirstMatch ==
    lastOp.kind = "lookup"
      => LET dir == folders[lastOp.path]
             Q(n) == Qualifies(dir, n, lastOp.invoiceNumber, lastOp.extension)
         IN  IF \E n \in DOMAIN dir : Q(n)
             THEN /\ lastOp.err = ""
                  /\ lastOp.filename \in DOMAIN dir
                  /\ Q(lastOp.filename)
                  /\ \A o \in DOMAIN dir :
                        Q(o) => o = lastOp.filename \/ StrLess(lastOp.filename, o)
             ELSE /\ lastOp.err = "not_found"
                  /\ lastOp.filename = <<>>

\* the match is the upper-case name, behind a directory and a file without extension
C24_Witness ==
    /\ lastOp.kind = "lookup"
    /\ lastOp.invoiceNumber = InvA1
    /\ lastOp.extension = <<>>
    /\ folders[lastOp.path][<<"A", "1">>] = InitialBytes
    /\ folders[lastOp.path][FileA1] = Directory
    /\ folders[lastOp.path][FileA12] = InitialBytes
    /\ lastOp.filename = FileA12

\* the steps of a delivery on the ERP log entry, and its download and folder steps
ErpUpdateEvents == {"erp_update", "erp_update_failed"}

TransitionEvents ==
    {"download", "download_failed", "replace", "replace_failed", "stamp_request",
     "finish_write", "progress_delete", "progress_delete_failed"}

FolderTriples ==
    { [ready |-> GetReadyPath, progress |-> GetProgressPath, finish |-> GetFinishPath],
      [ready |-> "nav/out", progress |-> "nav/process", finish |-> "nav/in"] }

\* a delivery for a stamp document: its mapping was copied from that of a sign document
IsStampDocument(cache, payload) ==
    /\ payload.ID \in ProviderIds
    /\ cache[payload.ID] # NoEntry
    /\ MappingOf(cache, payload).DocumentID \in ProviderIds \ {payload.ID}

C27_NoResurrection ==
    ( /\ lastOp.kind = "race"
      /\ lastOp.signing.pc = "done"
      /\ lastOp.stamping.pc = "done"
      /\ lastOp.stamping.deleted )
      => LET pair == FinishPair(RaceSetup)
             filename == lastOp.stamping.filename
         IN  /\ folders[pair.finish][filename] = StampedBytes
             /\ folders[pair.progress][filename] = Absent

StampingOnly(req) == ~req.Signing /\ req.Stamping

\* C28: a stamping-only request past the authorization gate is neither validated nor
\* looked up in the ready folder and touches no folder. Without a mapping under its
\* entry number it fails and nothing is sent to the provider. With one, it downloads
\* once and, when the download succeeded, sends at most one stamp request (exactly one
\* unless no access token could be got for it) for the mapping the cache holds under
\* the entry number, which is the one copied to the stamp document; it is answered with
\* an error when the download or the stamp request failed and with success otherwise.
C28_StampingOnlyRequest ==
    [][ ( /\ lastOp'.kind = "sign"
          /\ StampingOnly(lastOp'.req)
          /\ PastAuthorization(lastOp'.req) )
        => LET op == lastOp'
               entry == entryMap[op.req.EntryNo]
               calls == {"download", "download_failed", "stamp_request", "stamp_failed",
                         "sign_request"}
           IN  /\ op.err # "validation"
               /\ EventsOf(op) \cap {"find", "move", "sign_request"} = {}
               /\ folders' = folders
               /\ entryMap' = entryMap
               /\ entry = NoEntry
                    => /\ op.err = "sign_first"
                       /\ op.status = 500
                       /\ EventsOf(op) \cap calls = {}
                       /\ issued' = issued
                       /\ docMap' = docMap
               /\ entry # NoEntry
                    => /\ CountOf(op, "download") + CountOf(op, "download_failed") = 1
                       /\ CountOf(op, "stamp_request") <= 1
                       /\ "download_failed" \in EventsOf(op)
                            => /\ op.err # "" /\ op.status = 500
                               /\ EventsOf(op) \cap {"stamp_request", "stamp_failed"} = {}
                               /\ docMap' = docMap
                       /\ "download" \in EventsOf(op)
                            => /\ CountOf(op, "stamp_request") = 1
                                    \/ (IsOAuth2 /\ "stamp_failed" \in EventsOf(op))
                               /\ "stamp_failed" \in EventsOf(op)
                                    => op.err # "" /\ op.status = 500 /\ docMap' = docMap
                               /\ "stamp_failed" \notin EventsOf(op)
                                    => /\ op.err = "" /\ op.status = 201
                                       /\ op.stampId = issued + 1
                                       /\ "mapping_set" \in EventsOf(op)
                                            => docMap'[op.stampId] = entry
      ]_vars

\* two sign requests under entry number 0, then the stamping-only request for it: the
\* stamp document carries the mapping of the second sign request
C28_Witness ==
    /\ lastOp.kind = "sign"
    /\ StampingOnly(lastOp.req)
    /\ lastOp.req.Signers = <<>>
    /\ lastOp.req.DocumentDeadline # Nil
    /\ lastOp.status = 201
    /\ lastOp.stampId = 3
    /\ "stamp_request" \in EventsOf(lastOp)
    /\ docMap[3] # NoEntry
    /\ ParseMapping(docMap[3][1]).DocumentID = 2
    /\ entryMap[0] = docMap[3]

\* C29: a signing request with an empty invoice number uploads no document: it is never
\* accepted, nothing is sent to the provider and no file is moved; past the
\* authorization gate and the validation it ends in the lookup's not-found error.
C29_EmptyInvoiceUploadsNothing ==
    [][ ( /\ lastOp'.kind = "sign"
          /\ IsSigningRequest(lastOp'.req)
          /\ lastOp'.req.InvoiceNumber = <<>> )
        => /\ lastOp'.status # 201
           /\ EventsOf(lastOp') \cap {"sign_request", "move"} = {}
           /\ folders' = folders
           /\ (PastAuthorization(lastOp'.req) /\ ValidateRequest(lastOp'.req) = "")
                => lastOp'.err = "find"
      ]_vars

\* C30: storeTokens stores the access token with an expiry of more than zero and at
\* most expires_in seconds: expires_in - 60, or expires_in when that is negative; for
\* no expires_in is the access token stored to stay.
C30_AccessTokenExpires ==
    (lastOp.kind = "tokens_stored" /\ lastOp.accessToken # NoEntry)
      => LET expiresIn == lastOp.tokenResp.ExpiresIn
             entry == lastOp.accessToken[1]
         IN  /\ entry.ttl = (IF expiresIn - 60 < 0 THEN expiresIn ELSE expiresIn - 60)
             /\ entry.ttl <= expiresIn
             /\ entry.ttl > 0
             /\ entry.expires

====
